---- MODULE Spec2Model ----
(***************************************************************************)
(* Verification model of the puzzle-finder vision pipeline and of the page *)
(* logic that drives it (pwa-puzzle-finder).                               *)
(*                                                                         *)
(*  Spec          live loop (useVisionTick) and capture passes             *)
(*                (CameraPage.runHighQualityCapturePass) of one session    *)
(*  SpecSeg       the worker's segmentation passes and its motion cache    *)
(*  SpecExtract   the candidate filter / extractor, main thread and worker *)
(*  SpecClassify  the edge / corner classifiers                            *)
(*  SpecCounts    the scan counts of a classified batch                    *)
(*  SpecFrame     the main-thread segmentation of one frame                *)
(*  SpecRun       the runs of the live pipeline and their error signals    *)
(*  SpecGuidance  the quality status and the guidance list of the page     *)
(*  SpecOverlap   the bounding-box overlap estimate                        *)
(*  SpecSens      the sensitivity presets                                  *)
(*  SpecClient    the worker client (SpecClientLive: with fair scheduling) *)
(*  SpecCaptureLive  the page session, every capture pass terminating      *)
(*  SpecCamera       the camera stream hook                                *)
(*  SpecReducer      the camera page reducer                               *)
(***************************************************************************)
EXTENDS Integers, Sequences, FiniteSets, TLC

VARIABLES
    \* ---- page / live loop (Spec) ----
    enabled,        \* liveModeEnabled as seen by the last committed live effect
    cameraStatus,   \* useCameraStream status
    sensitivity,    \* v1 sensitivity level (stands for the vision parameters in the effect's deps)
    workerStatus,   \* page state workerStatus
    docHidden,      \* document.hidden
    liveTimer,      \* liveTimerRef.current != null
    liveInFlight,   \* liveInFlightRef.current
    hasCleanup,     \* the last run of the live effect returned its cleanup
    liveRunning,    \* live executions started and not yet settled (a count)
    capRunning,     \* capture passes started and not yet settled (their mySeq)
    captureSeq,     \* captureSeqRef.current
    segShown,       \* which execution's result the page state holds
    segStatus,      \* page state segStatus
    isProcessing,   \* page state isProcessing
    liveStatus,     \* page state liveStatus
    lastOp,         \* history: what the last step did
    \* ---- worker segmentation (SpecSeg) ----
    prevGraySmall,  \* __prevGraySmall: the retained downscaled gray frame, or null
    segPasses,      \* segmentation passes run so far
    segOut,         \* outcome of the last pass
    \* ---- extraction (SpecExtract) ----
    segPieces,      \* segmentation.pieces: the candidates handed to the extractor
    extractRes,     \* what the extractor returned for them
    \* ---- classification (SpecClassify) ----
    clsBatch,       \* the extracted pieces handed to the classifier
    clsRes,         \* what the classifier returned for them
    \* ---- scan counts (SpecCounts) ----
    classList,      \* the piece classes handed to computeCountsFromClasses
    scanCounts,     \* the ScanCounts it returned
    \* ---- main-thread segmentation (SpecFrame) ----
    frameSeg,       \* the last segmentPiecesFromFrame call: its inputs and what it returned
    \* ---- pipeline runs of the live loop (SpecRun) ----
    requestSeq,     \* process requests posted so far (stands for the generated requestId)
    pending,        \* VisionWorkerClient.pending: the requestIds awaiting a reply
    workerInbox,    \* 'process' messages posted to the worker and not yet handled
    clientInbox,    \* messages posted by the worker and not yet handled by the client
    pipeLiveStatus, \* page state liveStatus as the runs of the pipeline leave it
    pipePieces,     \* page state extractedPieces: how many pieces it holds
    lastRun,        \* history: how the last settled run ended
    \* ---- frame quality and guidance (SpecGuidance) ----
    frameQuality,   \* page state frameQuality (null: present = FALSE)
    shownSegLen,    \* page state segPieces.length
    shownExtractedLen, \* page state extractedPieces.length
    filterMaxPieces,   \* page state filterMaxPieces
    qualityStatus,  \* useMemo: frameQualityToStatus(frameQuality)
    qualityGuidance,   \* useMemo: guidanceFromFrameQuality(frameQuality, {piecesFound, maxPieces})
    lastAnalysis,   \* history: which path produced the shown result and the ratio it measured
    \* ---- overlap estimate (SpecOverlap) ----
    boxList,        \* the bounding boxes of the pieces, in discovery order
    maxComparisons, \* params.maxComparisons
    overlapRun,     \* the last estimateOverlap call: the boxes as handed over and its estimate
    \* ---- sensitivity presets (SpecSens) ----
    sensCalls,      \* the calls of v1SensitivityToParams made so far: level and returned params
    \* ---- worker client (SpecClient, SpecClientLive) ----
    clStatus,       \* VisionWorkerClient.status
    clInit,         \* initPromise: "none" (null), "pending", "ok" or "failed" (resolved ok:true / ok:false)
    clGen,          \* how many workers init() has created
    clTimers,       \* the init() calls whose 60-second timeout is still armed
    clHooks,        \* the init() calls whose temporary onMessage hook is still installed
    wkAlive,        \* this.worker is set and the worker runs
    wkInbox,        \* messages posted to the worker and not yet handled
    clInbox,        \* messages posted by the worker and not yet delivered
    clNextId,       \* process() calls that posted a request so far
    clPending,      \* the requestIds in this.pending
    clReq,          \* history: per request what was sent and how its promise was settled
    clLast,         \* history: the last message delivered and the requests it settled
    clTerminated,   \* terminate() was called and init() has not been called since
    \* ---- camera stream hook ----
    camStatus,      \* useCameraStream: status
    camErrorKind,   \* errorKind
    streamHeld,     \* streamRef.current is a MediaStream
    srcAttached,    \* the video element has a srcObject
    camAwait,       \* calls suspended at getUserMedia / play (start) / play (backToLive)
    camStopped,     \* history: stopCamera() ran and startCamera() has not been called since
    \* ---- camera page reducer ----
    pageState,      \* cameraPageReducer: the reducer's state
    dispatches,     \* actions dispatched so far
    lastDispatch    \* history: type of the last action, state before and after it

pageVars == <<enabled, cameraStatus, sensitivity, workerStatus, docHidden, liveTimer,
              liveInFlight, hasCleanup, liveRunning, capRunning, captureSeq, segShown,
              segStatus, isProcessing, liveStatus, lastOp>>

segVars == <<prevGraySmall, segPasses, segOut>>

extVars == <<segPieces, extractRes>>

clsVars == <<clsBatch, clsRes>>

cntVars == <<classList, scanCounts>>

frmVars == <<frameSeg>>

runVars == <<requestSeq, pending, workerInbox, clientInbox, pipeLiveStatus, pipePieces, lastRun>>

ovlVars == <<boxList, maxComparisons, overlapRun>>

gdnVars == <<frameQuality, shownSegLen, shownExtractedLen, filterMaxPieces, qualityStatus,
             qualityGuidance, lastAnalysis>>

snsVars == <<sensCalls>>

cliVars == <<clStatus, clInit, clGen, clTimers, clHooks, wkAlive, wkInbox, clInbox, clNextId, clPending, clReq, clLast, clTerminated>>

camVars == <<camStatus, camErrorKind, streamHeld, srcAttached, camAwait, camStopped>>

redVars == <<pageState, dispatches, lastDispatch>>

\* ---------------------------------------------------------------- bounds
MaxExec == 3        \* pipeline executions outstanding at once
MaxSeq == 3         \* capture passes started in one session
MaxPasses == 3      \* segmentation passes in one worker lifetime
MaxCands == 3       \* candidates in one segmentation result
MaxBatch == 2       \* extracted pieces in one classifier call
MaxClasses == 3     \* piece classes in one call of computeCountsFromClasses
MaxContours == 2    \* external contours found in one main-thread segmentation
MaxReq == 2         \* process requests posted to the worker in one session
MaxSegLen == 2      \* candidates of the segmentation behind the shown guidance
MaxBoxes == 3       \* bounding boxes in one call of estimateOverlap
MaxCalls == 4       \* calls of v1SensitivityToParams in one session
MaxGen == 1         \* workers created by init() in one client
MaxIds == 2         \* requests posted by process() in one client
MaxStarts == 2      \* camera calls suspended at an await at the same time
MaxDispatch == 2    \* actions dispatched to the reducer

\* ---------------------------------------------------------------- page model
Levels == {"low", "medium", "high"}
NoShown == [kind |-> "none", seq |-> 0]

\* Pipeline executions started and not yet resolved or rejected.
Outstanding == liveRunning + Cardinality(capRunning)
CanStart == Outstanding < MaxExec

\* tick(): the guards of the live tick; TRUE when the tick starts an execution.
TickStarts(inFlight, en, cam, hidden, videoReady) ==
    /\ ~inFlight
    /\ en
    /\ ~hidden
    /\ cam \in {"live", "captured"}
    /\ (cam = "live" => videoReady)

\* stopLiveProcessing(): the value it leaves in liveInFlightRef.current.
StopLiveInFlight(inFlight) == FALSE

\* The live effect, run for the committed values (en, cam): the previous run's
\* cleanup (stopLiveProcessing) when it returned one, then the effect body, whose
\* last statements call tick() once and install the interval.
RunLiveEffect(en, cam, videoReady) ==
    LET flagAfterCleanup == IF hasCleanup THEN StopLiveInFlight(liveInFlight) ELSE liveInFlight
        statusAfterCleanup == IF hasCleanup THEN "idle" ELSE liveStatus
        active == en /\ cam \in {"live", "captured"}
        starts == active /\ TickStarts(flagAfterCleanup, en, cam, docHidden, videoReady)
    IN  /\ starts => CanStart
        /\ hasCleanup' = active
        /\ liveTimer' = active
        /\ liveStatus' = IF ~en THEN "idle"
                         ELSE IF active THEN "running" ELSE statusAfterCleanup
        /\ liveInFlight' = IF ~en THEN StopLiveInFlight(flagAfterCleanup)
                           ELSE IF starts THEN TRUE ELSE flagAfterCleanup
        /\ liveRunning' = IF starts THEN liveRunning + 1 ELSE liveRunning
        /\ lastOp' = [op |-> "effect", started |-> starts, liveBefore |-> liveRunning, seq |-> 0]

PageInit ==
    /\ enabled = FALSE
    /\ cameraStatus = "idle"
    /\ sensitivity = "medium"
    /\ workerStatus = "loading"
    /\ docHidden = FALSE
    /\ liveTimer = FALSE
    /\ liveInFlight = FALSE
    /\ hasCleanup = FALSE
    /\ liveRunning = 0
    /\ capRunning = {}
    /\ captureSeq = 0
    /\ segShown = NoShown
    /\ segStatus = "idle"
    /\ isProcessing = FALSE
    /\ liveStatus = "idle"
    /\ lastOp = [op |-> "init", started |-> FALSE, liveBefore |-> 0, seq |-> 0]

\* A vision parameter in the effect's dependency list changes (sensitivity control).
SetSensitivity ==
    \E lv \in Levels \ {sensitivity}, videoReady \in BOOLEAN :
        /\ sensitivity' = lv
        /\ RunLiveEffect(enabled, cameraStatus, videoReady)
        /\ UNCHANGED <<enabled, cameraStatus, workerStatus, docHidden, capRunning, captureSeq,
                       segShown, segStatus, isProcessing>>

\* The page's worker-init effect resolves: setWorkerStatus('ready'), a dep of the live effect.
WorkerBecomesReady ==
    /\ workerStatus = "loading"
    /\ workerStatus' = "ready"
    /\ \E videoReady \in BOOLEAN : RunLiveEffect(enabled, cameraStatus, videoReady)
    /\ UNCHANGED <<enabled, cameraStatus, sensitivity, docHidden, capRunning, captureSeq,
                   segShown, segStatus, isProcessing>>

\* setLiveModeEnabled(v): the enable toggle, or the v1 effect following the camera status.
SetLiveModeEnabled ==
    \E v \in BOOLEAN \ {enabled}, videoReady \in BOOLEAN :
        /\ enabled' = v
        /\ RunLiveEffect(v, cameraStatus, videoReady)
        /\ UNCHANGED <<cameraStatus, sensitivity, workerStatus, docHidden, capRunning, captureSeq,
                       segShown, segStatus, isProcessing>>

\* startCamera() reaching 'live', or backToLive() from a captured frame.
CameraGoesLive ==
    /\ cameraStatus \in {"idle", "captured"}
    /\ cameraStatus' = "live"
    /\ \E videoReady \in BOOLEAN : RunLiveEffect(enabled, "live", videoReady)
    /\ UNCHANGED <<enabled, sensitivity, workerStatus, docHidden, capRunning, captureSeq,
                   segShown, segStatus, isProcessing>>

SetDocHidden ==
    /\ docHidden' = ~docHidden
    /\ lastOp' = [op |-> "hidden", started |-> FALSE, liveBefore |-> liveRunning, seq |-> 0]
    /\ UNCHANGED <<enabled, cameraStatus, sensitivity, workerStatus, liveTimer, liveInFlight,
                   hasCleanup, liveRunning, capRunning, captureSeq, segShown, segStatus,
                   isProcessing, liveStatus>>

\* The interval fires: tick().
TimerTick ==
    /\ liveTimer
    /\ \E videoReady \in BOOLEAN :
        LET starts == TickStarts(liveInFlight, enabled, cameraStatus, docHidden, videoReady)
        IN  /\ starts => CanStart
            /\ liveInFlight' = (liveInFlight \/ starts)
            /\ liveRunning' = IF starts THEN liveRunning + 1 ELSE liveRunning
            /\ lastOp' = [op |-> "tick", started |-> starts,
                          liveBefore |-> liveRunning, seq |-> 0]
    /\ UNCHANGED <<enabled, cameraStatus, sensitivity, workerStatus, docHidden, liveTimer,
                   hasCleanup, capRunning, captureSeq, segShown, segStatus, isProcessing,
                   liveStatus>>

\* runLivePipelineOnce() settles inside tick(): results applied on success, the
\* error state on failure, and in both cases the finally block clears the flag.
LiveSettles ==
    \E ok \in BOOLEAN :
        /\ liveRunning > 0
        /\ liveRunning' = liveRunning - 1
        /\ liveInFlight' = FALSE
        /\ segShown' = IF ok THEN [kind |-> "live", seq |-> 0] ELSE segShown
        /\ segStatus' = IF ok THEN "done" ELSE segStatus
        /\ liveStatus' = IF ok THEN liveStatus ELSE "error"
        /\ lastOp' = [op |-> "liveSettled", started |-> FALSE,
                      liveBefore |-> liveRunning, seq |-> 0]
        /\ UNCHANGED <<enabled, cameraStatus, sensitivity, workerStatus, docHidden, liveTimer,
                       hasCleanup, capRunning, captureSeq, isProcessing>>

\* A pass that never compares sequence numbers.
SeqIsCurrentNoCheck(mySeq) == TRUE

\* A pass that always takes itself for superseded.
SeqIsCurrentNever(mySeq) == FALSE

\* if (captureSeqRef.current !== mySeq) return null;
SeqIsCurrent(mySeq) == captureSeq = mySeq

\* runHighQualityCapturePass() up to its first await.
StartCapturePass ==
    /\ captureSeq' = captureSeq + 1
    /\ capRunning' = capRunning \cup {captureSeq + 1}
    /\ segStatus' = "running"
    /\ isProcessing' = TRUE

\* captureAndAnalyze(): captureFrame (which may return early), live mode off, one pass.
CaptureAndAnalyze ==
    /\ cameraStatus = "live"
    /\ captureSeq < MaxSeq
    /\ CanStart
    /\ \E frozen \in BOOLEAN :
        /\ cameraStatus' = IF frozen THEN "captured" ELSE cameraStatus
        /\ enabled' = FALSE
        /\ LET flag == IF hasCleanup THEN StopLiveInFlight(liveInFlight) ELSE liveInFlight
           IN  /\ liveInFlight' = IF enabled \/ frozen THEN StopLiveInFlight(flag) ELSE liveInFlight
               /\ liveTimer' = IF enabled \/ frozen THEN FALSE ELSE liveTimer
               /\ hasCleanup' = IF enabled \/ frozen THEN FALSE ELSE hasCleanup
               /\ liveStatus' = IF enabled \/ frozen THEN "idle" ELSE liveStatus
    /\ StartCapturePass
    /\ lastOp' = [op |-> "capture", started |-> TRUE, liveBefore |-> liveRunning,
                  seq |-> captureSeq + 1]
    /\ UNCHANGED <<sensitivity, workerStatus, docHidden, liveRunning, segShown>>

\* rescanCaptured(): another pass over the frozen frame.
RescanCaptured ==
    /\ cameraStatus = "captured"
    /\ captureSeq < MaxSeq
    /\ CanStart
    /\ enabled' = FALSE
    /\ LET flag == IF hasCleanup THEN StopLiveInFlight(liveInFlight) ELSE liveInFlight
       IN  /\ liveInFlight' = IF enabled THEN StopLiveInFlight(flag) ELSE liveInFlight
           /\ liveTimer' = IF enabled THEN FALSE ELSE liveTimer
           /\ hasCleanup' = IF enabled THEN FALSE ELSE hasCleanup
           /\ liveStatus' = IF enabled THEN "idle" ELSE liveStatus
    /\ StartCapturePass
    /\ lastOp' = [op |-> "rescan", started |-> TRUE, liveBefore |-> liveRunning,
                  seq |-> captureSeq + 1]
    /\ UNCHANGED <<cameraStatus, sensitivity, workerStatus, docHidden, liveRunning, segShown>>

\* A capture pass settles: its result (or error state) is applied only when its
\* sequence number is still the current one.
CaptureSettles ==
    \E mySeq \in capRunning, ok \in BOOLEAN :
        LET applies == SeqIsCurrent(mySeq)
        IN  /\ capRunning' = capRunning \ {mySeq}
            /\ segShown' = IF applies /\ ok THEN [kind |-> "capture", seq |-> mySeq] ELSE segShown
            /\ segStatus' = IF applies THEN (IF ok THEN "done" ELSE "error") ELSE segStatus
            /\ isProcessing' = IF applies THEN FALSE ELSE isProcessing
            /\ lastOp' = [op |-> "captureSettled", started |-> FALSE,
                          liveBefore |-> liveRunning, seq |-> mySeq]
            /\ UNCHANGED <<enabled, cameraStatus, sensitivity, workerStatus, docHidden,
                           liveTimer, liveInFlight, hasCleanup, liveRunning, captureSeq, liveStatus>>

\* stopCamera(): camera idle, live mode off, results cleared.
StopCamera ==
    /\ cameraStatus # "idle"
    /\ cameraStatus' = "idle"
    /\ enabled' = FALSE
    /\ liveInFlight' = StopLiveInFlight(liveInFlight)
    /\ liveTimer' = FALSE
    /\ hasCleanup' = FALSE
    /\ liveStatus' = "idle"
    /\ segShown' = NoShown
    /\ segStatus' = "idle"
    /\ lastOp' = [op |-> "stopCamera", started |-> FALSE,
                  liveBefore |-> liveRunning, seq |-> 0]
    /\ UNCHANGED <<sensitivity, workerStatus, docHidden, liveRunning, capRunning, captureSeq,
                   isProcessing>>


\* ---------------------------------------------------------------- worker segmentation
Null == [frame |-> 0, w |-> 0, h |-> 0, luma |-> 0]
NoPass == [status |-> "none", frame |-> 0, hasQuality |-> FALSE, motion |-> -1, writes |-> 0]

\* Processed frames handed to the worker: width x height and a (uniform) luma.
FrameSizes == {<<640, 360>>, <<1024, 576>>, <<360, 640>>, <<640, 480>>}
Lumas == {40, 100}
\* Where an OpenCV call of the main pipeline throws inside segmentPiecesFromRgba,
\* if anywhere: before the quality block ("pre") or after it ("contours"). Inside
\* the quality and motion blocks the only throw modelled is the one the inputs
\* decide: absdiff over frames of different sizes.
ThrowStages == {"none", "pre", "contours"}

Max(a, b) == IF a > b THEN a ELSE b
Min(a, b) == IF a < b THEN a ELSE b
Abs(a) == IF a < 0 THEN -a ELSE a
\* Math.round(n / d) for n >= 0, d > 0
RoundDiv(n, d) == (2 * n + d) \div (2 * d)

MotionTargetW == 160
\* const scale = gray.cols > targetW ? targetW / gray.cols : 1; w, h of `small`
SmallW(cols) == IF cols > MotionTargetW THEN Max(1, RoundDiv(cols * MotionTargetW, cols))
                ELSE Max(1, cols)
SmallH(cols, rows) == IF cols > MotionTargetW THEN Max(1, RoundDiv(rows * MotionTargetW, cols))
                     ELSE Max(1, rows)

\* cv.absdiff(small, __prevGraySmall, diff) throws when the two sizes differ.
AbsdiffThrows(small, prev) == small.w # prev.w \/ small.h # prev.h

\* The motion block (try { resize; absdiff; replace cache } catch {}): the cache it
\* leaves, the motion score (-1 = undefined) and how often the cache was assigned.
MotionBlock(prev, small) ==
    IF prev # Null /\ AbsdiffThrows(small, prev)
    THEN [cache |-> prev, motion |-> -1, writes |-> 0]
    ELSE [cache |-> small,
          motion |-> IF prev # Null THEN Abs(small.luma - prev.luma) ELSE -1,
          writes |-> 1]

\* segmentPiecesFromRgba on one frame.
SegmentPiecesFromRgba(prev, frameNo, cols, rows, luma, stage) ==
    LET small == [frame |-> frameNo, w |-> SmallW(cols), h |-> SmallH(cols, rows), luma |-> luma]
        mb == MotionBlock(prev, small)
    IN  IF stage = "pre"
        THEN [cache |-> prev,
              out |-> [status |-> "threw", frame |-> frameNo, hasQuality |-> FALSE,
                       motion |-> -1, writes |-> 0]]
        ELSE [cache |-> mb.cache,
              out |-> [status |-> IF stage = "contours" THEN "threw" ELSE "ok",
                       frame |-> frameNo, hasQuality |-> stage # "contours",
                       motion |-> mb.motion, writes |-> mb.writes]]

SegInit ==
    /\ prevGraySmall = Null
    /\ segPasses = 0
    /\ segOut = NoPass

\* self.onmessage 'process': one segmentation pass over the posted frame.
WorkerSegmentPass ==
    /\ segPasses < MaxPasses
    /\ \E size \in FrameSizes, luma \in Lumas, stage \in ThrowStages :
        LET r == SegmentPiecesFromRgba(prevGraySmall, segPasses + 1, size[1], size[2], luma, stage)
        IN  /\ prevGraySmall' = r.cache
            /\ segOut' = r.out
    /\ segPasses' = segPasses + 1

\* The worker is terminated and created again: module state starts over.
WorkerRestart ==
    /\ segPasses > 0
    /\ prevGraySmall' = Null
    /\ segPasses' = 0
    /\ segOut' = NoPass

\* ---------------------------------------------------------------- extraction
\* The processed frame the candidates were found in.
ProcFrame == [w |-> 160, h |-> 120]

\* Candidate contours as the extractor sees them: number of contour points, the
\* bounding rect of the (simplified) contour in processed pixels, and the
\* solidity area / hullArea in percent.
CandShapes ==
    { [n |-> 8,  x |-> 20,  y |-> 20, w |-> 40,  h |-> 40, solid |-> 90],
      [n |-> 8,  x |-> 6,   y |-> 6,  w |-> 30,  h |-> 40, solid |-> 80],
      [n |-> 8,  x |-> 2,   y |-> 30, w |-> 30,  h |-> 30, solid |-> 90],
      [n |-> 8,  x |-> 125, y |-> 30, w |-> 30,  h |-> 30, solid |-> 90],
      [n |-> 6,  x |-> 20,  y |-> 20, w |-> 100, h |-> 20, solid |-> 90],
      [n |-> 12, x |-> 30,  y |-> 30, w |-> 40,  h |-> 40, solid |-> 50],
      [n |-> 2,  x |-> 30,  y |-> 30, w |-> 10,  h |-> 1,  solid |-> 0] }

\* options.maxPieces as the caller passes it (200 is also the default).
MaxPiecesOptions == {1, 2, 200}

DefaultBorderMarginPx == 6
DefaultPaddingPx == 6
DefaultMinSolidityPct == 80
DefaultMaxAspectRatio == 4

\* options.borderMarginPx as the caller passes it (the default among them).
BorderMarginOptions == {0, DefaultBorderMarginPx, 20}

\* The filter parameters of one extractor call.
ExtractOptions ==
    { [borderMarginPx |-> b, paddingPx |-> DefaultPaddingPx,
       minSolidityPct |-> DefaultMinSolidityPct, maxAspectRatio |-> DefaultMaxAspectRatio,
       maxPieces |-> k] : b \in BorderMarginOptions, k \in MaxPiecesOptions }

Clamp(v, lo, hi) == Max(lo, Min(hi, v))

\* segmentation: pieces.push({ id: pieces.length + 1, ... })
PushCandidate(pieces, shape) == Append(pieces, [id |-> Len(pieces) + 1, shape |-> shape])

\* A border test that looks at the left and top edges only.
NearBorderLeftTopOnly(r, procW, procH, margin) ==
    \/ r.x < margin
    \/ r.y < margin

\* rect.x < margin || rect.y < margin || rect.x + rect.width > procW - margin || ...
NearBorder(r, procW, procH, margin) ==
    \/ r.x < margin
    \/ r.y < margin
    \/ r.x + r.w > procW - margin
    \/ r.y + r.h > procH - margin

\* aspect = w > 0 && h > 0 ? max(w / h, h / w) : 999;  aspect > maxAspectRatio
AspectTooLarge(r, maxAspect) ==
    IF r.w > 0 /\ r.h > 0 THEN (r.w > maxAspect * r.h \/ r.h > maxAspect * r.w)
    ELSE 999 > maxAspect

\* ROI with padding, main thread (clamp into the frame).
RoiMain(r, procW, procH, pad) ==
    LET rx == Clamp(r.x - pad, 0, procW - 1)
        ry == Clamp(r.y - pad, 0, procH - 1)
        r2x == Clamp(r.x + r.w + pad, 0, procW)
        r2y == Clamp(r.y + r.h + pad, 0, procH)
    IN  [x |-> rx, y |-> ry, w |-> Max(1, r2x - rx), h |-> Max(1, r2y - ry)]

\* ROI with padding, worker.
RoiWorker(r, procW, procH, pad) ==
    LET rx == Max(0, r.x - pad)
        ry == Max(0, r.y - pad)
    IN  [x |-> rx, y |-> ry, w |-> Min(procW - rx, r.w + pad * 2),
         h |-> Min(procH - ry, r.h + pad * 2)]

\* The id given to an extracted piece: `id: cand.id` on the main thread,
\* `id: extracted.length + 1` in the worker.
PieceId(path, cand, extractedLen) ==
    IF path = "worker" THEN extractedLen + 1 ELSE cand.id

\* The extracted piece pushed for candidate number idx. contourProcessed is the
\* length of the piece's contourProcessed array; the main thread sets none (0).
ExtractedPiece(path, cand, idx, extractedLen, opts) ==
    LET roi == IF path = "worker"
               THEN RoiWorker(cand.shape, ProcFrame.w, ProcFrame.h, opts.paddingPx)
               ELSE RoiMain(cand.shape, ProcFrame.w, ProcFrame.h, opts.paddingPx)
    IN  [id |-> PieceId(path, cand, extractedLen), from |-> idx, bboxProcessed |-> roi,
         contourProcessed |-> IF path = "worker" THEN cand.shape.n ELSE 0]

NoCounts == [pieces |-> <<>>, candidates |-> 0, filteredBorder |-> 0,
             filteredAspect |-> 0, filteredSolidity |-> 0]

\* One iteration of `for (const cand of segmentation.pieces)` past the break test.
ExtractVisit(path, acc, cand, idx, opts) ==
    LET counted == [acc EXCEPT !.candidates = @ + 1]
    IN  IF cand.shape.n < 3 THEN counted
        ELSE IF NearBorder(cand.shape, ProcFrame.w, ProcFrame.h, opts.borderMarginPx)
             THEN [counted EXCEPT !.filteredBorder = @ + 1]
        ELSE IF AspectTooLarge(cand.shape, opts.maxAspectRatio)
             THEN [counted EXCEPT !.filteredAspect = @ + 1]
        ELSE IF cand.shape.solid < opts.minSolidityPct
             THEN [counted EXCEPT !.filteredSolidity = @ + 1]
        ELSE [counted EXCEPT !.pieces =
                  Append(@, ExtractedPiece(path, cand, idx, Len(acc.pieces), opts))]

\* A loop that never stops early.
LoopNeverBreaks(extractedLen, maxPieces) == FALSE

\* if (extracted.length >= maxPieces) break;
LoopBreaks(extractedLen, maxPieces) == extractedLen >= maxPieces

RECURSIVE ExtractLoop(_, _, _, _, _)
ExtractLoop(path, pieces, idx, acc, opts) ==
    IF idx > Len(pieces) \/ LoopBreaks(Len(acc.pieces), opts.maxPieces) THEN acc
    ELSE ExtractLoop(path, pieces, idx + 1, ExtractVisit(path, acc, pieces[idx], idx, opts), opts)

\* filterAndExtractPieces (main thread): throws without a 2D context.
FilterAndExtractPieces(pieces, opts, hasCtx) ==
    IF ~hasCtx THEN [path |-> "main", status |-> "threw", opts |-> opts, out |-> NoCounts]
    ELSE [path |-> "main", status |-> "ok", opts |-> opts,
          out |-> ExtractLoop("main", pieces, 1, NoCounts, opts)]

\* filterAndExtractPiecesCore (worker).
FilterAndExtractPiecesCore(pieces, opts) ==
    [path |-> "worker", status |-> "ok", opts |-> opts,
     out |-> ExtractLoop("worker", pieces, 1, NoCounts, opts)]

NoExtract == [path |-> "none", status |-> "none",
              opts |-> [borderMarginPx |-> 0, paddingPx |-> 0, minSolidityPct |-> 0,
                        maxAspectRatio |-> 0, maxPieces |-> 0],
              out |-> NoCounts]

ExtInit ==
    /\ segPieces = <<>>
    /\ extractRes = NoExtract

\* Segmentation keeps one more contour as a candidate.
SegmentationKeepsContour ==
    /\ extractRes = NoExtract
    /\ Len(segPieces) < MaxCands
    /\ \E shape \in CandShapes : segPieces' = PushCandidate(segPieces, shape)
    /\ UNCHANGED extractRes

\* The next frame is segmented: a new, empty candidate list.
SegmentNextFrame ==
    /\ extractRes # NoExtract
    /\ segPieces' = <<>>
    /\ extractRes' = NoExtract

ExtractOnMainThread ==
    /\ extractRes = NoExtract
    /\ \E opts \in ExtractOptions, hasCtx \in BOOLEAN :
        extractRes' = FilterAndExtractPieces(segPieces, opts, hasCtx)
    /\ UNCHANGED segPieces

ExtractInWorker ==
    /\ extractRes = NoExtract
    /\ \E opts \in ExtractOptions :
        extractRes' = FilterAndExtractPiecesCore(segPieces, opts)
    /\ UNCHANGED segPieces

\* ---------------------------------------------------------------- classification
\* Confidences are exact fractions n / d with d > 0.
Rat(n, d) == [n |-> n, d |-> d]
RLe(a, b) == a.n * b.d <= b.n * a.d
RLt(a, b) == a.n * b.d < b.n * a.d
REq(a, b) == a.n * b.d = b.n * a.d
RMin(a, b) == IF RLe(a, b) THEN a ELSE b
RMax(a, b) == IF RLe(a, b) THEN b ELSE a
\* Math.max(0, Math.min(1, v)) / clamp01(v)
Clamp01(v) == RMax(Rat(0, 1), RMin(Rat(1, 1), v))

\* Option defaults of the three classifiers; ratios in percent, angles in degrees.
MainDefaults == [borderTol |-> 6, angleTol |-> 20, minLenPct |-> 35, minLineFloor |-> 10]
WorkerDefaults == [angleTol |-> 25, minLenPct |-> 25, minLineFloor |-> 12]
OldWorkerDefaults == [borderTol |-> 6, angleTol |-> 20, minLenPct |-> 35]
\* uncertainMarginRatio in percent: the default and what the page passes (10), and
\* a wide margin a caller may configure.
MarginOptions == {10, 100}

\* Math.hypot(dx, dy) for the segments used here, whose lengths are whole numbers.
Hypot(dx, dy) == CHOOSE k \in 0..(Abs(dx) + Abs(dy)) : k * k = dx * dx + dy * dy

\* Math.atan2(dy, dx) * 180 / Math.PI in hundredths of a degree, for the
\* directions of the segments used here.
Atan2CentiDeg(dy, dx) ==
    CASE dy = 0 /\ dx > 0 -> 0
      [] dy = 0 /\ dx < 0 -> 18000
      [] dx = 0 /\ dy > 0 -> 9000
      [] dx = 0 /\ dy < 0 -> -9000
      [] 24 * dy = 7 * dx /\ dx > 0 -> 1626
      [] 24 * dy = 7 * dx /\ dx < 0 -> -16374
      [] 12 * dy = 5 * dx /\ dx > 0 -> 2262
      [] 5 * dy = 12 * dx /\ dx > 0 -> 6738

\* JavaScript a % m: the sign follows the dividend.
JsRem(a, m) == IF a >= 0 THEN a % m ELSE -((-a) % m)

\* normalizeAngle0to180, in hundredths of a degree
NormalizeAngle0to180(a) ==
    LET r == JsRem(a, 18000) IN IF r < 0 THEN r + 18000 ELSE r

\* isNear(val, target, tol)
IsNear(val, target, tol) == Abs(val - target) <= tol

Seg(x1, y1, x2, y2) == [x1 |-> x1, y1 |-> y1, x2 |-> x2, y2 |-> y2]
SegLen(s) == Hypot(s.x2 - s.x1, s.y2 - s.y1)
SegAngle(s) == Atan2CentiDeg(s.y2 - s.y1, s.x2 - s.x1)

\* Largest member of a set of naturals, 0 for the empty set.
MaxOf(S) == IF S = {} THEN 0 ELSE CHOOSE m \in S : \A v \in S : v <= m

\* sideConf(ratio) for ratio = len / maxDim and minLenRatio = minLenPct / 100
\* (minLenRatio < 1, so the denominator is 1 - minLenRatio).
SideConf(len, maxDim, minLenPct) ==
    IF len <= 0 THEN Rat(0, 1)
    ELSE Clamp01(Rat(100 * len - minLenPct * maxDim, (100 - minLenPct) * maxDim))

\* An override that only looks below the threshold, without margin.
BorderlineNoMargin(bestLen, maxDim, minLenPct, marginPct) ==
    /\ bestLen > 0
    /\ bestLen * 100 < minLenPct * maxDim

\* bestRatio > 0 && bestRatio < minLenRatio * (1 + uncertainMarginRatio)
Borderline(bestLen, maxDim, minLenPct, marginPct) ==
    /\ bestLen > 0
    /\ bestLen * 100 * 100 < minLenPct * (100 + marginPct) * maxDim

\* A downgrade that swaps the label and keeps the confidence.
KeptConfidence(conf) == conf

\* confidence = Math.max(0.05, Math.min(0.25, confidence))
DowngradedConfidence(conf) == RMax(Rat(5, 100), RMin(Rat(25, 100), conf))

\* The conservative override applied to (cls, conf).
ConservativeOverride(cls, conf, bestLen, maxDim, minLenPct, marginPct, note) ==
    LET down == cls \in {"corner", "edge"} /\ Borderline(bestLen, maxDim, minLenPct, marginPct)
    IN  [classification |-> IF down THEN "unknown" ELSE cls,
         confidence |-> IF down THEN DowngradedConfidence(conf) ELSE conf,
         hasConfidence |-> TRUE, note |-> note, downgraded |-> down,
         clsBefore |-> cls, confBefore |-> conf, bestLen |-> bestLen, maxDim |-> maxDim]

\* A result produced by an early return.
EarlyResult(cls, hasConf, note) ==
    [classification |-> cls, confidence |-> Rat(0, 1), hasConfidence |-> hasConf,
     note |-> note, downgraded |-> FALSE, clsBefore |-> cls, confBefore |-> Rat(0, 1),
     bestLen |-> 0, maxDim |-> 0]

Idx(lines) == 1..Len(lines)

\* classifyEdgeCornerMvp (main thread), the body of its loop for one piece.
ClassifyPieceMain(p, marginPct) ==
    LET o == MainDefaults
        w == Max(1, p.bbox.w)
        h == Max(1, p.bbox.h)
        lines == p.lines
        minLineLength == Max(o.minLineFloor, (Max(w, h) * o.minLenPct) \div 100)
        long == {i \in Idx(lines) : SegLen(lines[i]) >= minLineLength}
        ang(i) == NormalizeAngle0to180(SegAngle(lines[i]))
        horiz(i) == IsNear(ang(i), 0, o.angleTol * 100) \/ IsNear(ang(i), 18000, o.angleTol * 100)
        vert(i) == ~horiz(i) /\ IsNear(ang(i), 9000, o.angleTol * 100)
        minX(i) == Min(lines[i].x1, lines[i].x2)
        maxX(i) == Max(lines[i].x1, lines[i].x2)
        minY(i) == Min(lines[i].y1, lines[i].y2)
        maxY(i) == Max(lines[i].y1, lines[i].y2)
        hSet == {i \in long : horiz(i) /\ (minY(i) <= o.borderTol \/ maxY(i) >= h - 1 - o.borderTol)}
        vSet == {i \in long : vert(i) /\ (minX(i) <= o.borderTol \/ maxX(i) >= w - 1 - o.borderTol)}
        hasHorizontal == hSet # {}
        hasVertical == vSet # {}
        bestHLen == MaxOf({SegLen(lines[i]) : i \in hSet})
        bestVLen == MaxOf({SegLen(lines[i]) : i \in vSet})
        maxDim == Max(w, h)
        bestLen == Max(bestHLen, bestVLen)
        hConf == IF hasHorizontal THEN SideConf(bestHLen, maxDim, o.minLenPct) ELSE Rat(0, 1)
        vConf == IF hasVertical THEN SideConf(bestVLen, maxDim, o.minLenPct) ELSE Rat(0, 1)
        cls == IF hasHorizontal /\ hasVertical THEN "corner"
               ELSE IF hasHorizontal \/ hasVertical THEN "edge" ELSE "nonEdge"
        conf == IF hasHorizontal /\ hasVertical THEN RMin(hConf, vConf)
                ELSE IF hasHorizontal \/ hasVertical THEN RMax(hConf, vConf) ELSE Rat(7, 10)
    IN  IF p.contourProcessed < 3 THEN EarlyResult("unknown", TRUE, "Missing contour.")
        ELSE ConservativeOverride(cls, conf, bestLen, maxDim, o.minLenPct, marginPct, "debug")

RECURSIVE ClassifyLoopMain(_, _, _, _)
ClassifyLoopMain(pieces, idx, updated, marginPct) ==
    IF idx > Len(pieces) THEN updated
    ELSE ClassifyLoopMain(pieces, idx + 1,
                          Append(updated, ClassifyPieceMain(pieces[idx], marginPct)), marginPct)

\* classifyEdgeCornerMvp: without a 2D context every piece is 'unknown'.
ClassifyEdgeCornerMvp(pieces, marginPct, hasCtx) ==
    [path |-> "main", status |-> "ok", margin |-> marginPct,
     pieces |-> IF hasCtx THEN ClassifyLoopMain(pieces, 1, <<>>, marginPct)
                ELSE [i \in 1..Len(pieces) |-> EarlyResult("unknown", TRUE, "No 2D context.")]]

\* rw <= 10 || rh <= 10: the worker's test for an ROI too small to process.
RoiTooSmall(rw, rh) == rw <= 10 \/ rh <= 10

\* ang of the worker: atan2 in degrees, plus 180 when negative.
WorkerAngle(s) == LET a == SegAngle(s) IN IF a < 0 THEN a + 18000 ELSE a

\* nearPerp of the worker for two angles.
NearPerp(ang, bestAng1, angleTol) ==
    LET d == Abs(ang - bestAng1)
        diff == IF d > 9000 THEN 18000 - d ELSE d
    IN  Abs(diff - 9000) <= angleTol * 100

\* classifyEdgeCornerMvpCore (worker), the callback of pieces.map for one piece.
ClassifyPieceWorker(p, marginPct) ==
    LET o == WorkerDefaults
        rx == Max(0, p.bbox.x)
        ry == Max(0, p.bbox.y)
        rw == Min(ProcFrame.w - rx, p.bbox.w)
        rh == Min(ProcFrame.h - ry, p.bbox.h)
        lines == p.lines
        minLineLen == Max(o.minLineFloor, RoundDiv(Max(rw, rh) * o.minLenPct, 100))
        long == {i \in Idx(lines) : SegLen(lines[i]) >= minLineLen}
        bestLen1 == MaxOf({SegLen(lines[i]) : i \in long})
        first == CHOOSE i \in long : /\ SegLen(lines[i]) = bestLen1
                                     /\ \A j \in long : SegLen(lines[j]) = bestLen1 => i <= j
        perp == IF long = {} THEN {}
                ELSE {i \in long : NearPerp(WorkerAngle(lines[i]), WorkerAngle(lines[first]), o.angleTol)}
        bestLen2 == MaxOf({SegLen(lines[i]) : i \in perp})
        maxDim == Max(rw, rh)
        has1 == bestLen1 >= minLineLen
        has2 == bestLen2 >= minLineLen
        conf1 == IF has1 THEN SideConf(bestLen1, maxDim, o.minLenPct) ELSE Rat(0, 1)
        conf2 == IF has2 THEN SideConf(bestLen2, maxDim, o.minLenPct) ELSE Rat(0, 1)
        cls == IF has1 /\ has2 THEN "corner" ELSE IF has1 THEN "edge" ELSE "nonEdge"
        conf == IF has1 /\ has2 THEN RMin(conf1, conf2) ELSE IF has1 THEN conf1 ELSE Rat(7, 10)
    IN  IF RoiTooSmall(rw, rh) \/ p.contourProcessed < 3
        THEN EarlyResult("unknown", TRUE, "Missing contour/ROI too small.")
        ELSE ConservativeOverride(cls, conf, Max(bestLen1, bestLen2), maxDim, o.minLenPct,
                                  marginPct, "debug")

ClassifyEdgeCornerMvpCore(pieces, marginPct) ==
    [path |-> "worker", status |-> "ok", margin |-> marginPct,
     pieces |-> [i \in 1..Len(pieces) |-> ClassifyPieceWorker(pieces[i], marginPct)]]

\* The earlier worker's classifier: whether a piece gets past the ROI test, to the
\* try / finally that deletes `lines` and then calls lines.create on it.
OldWorkerReachesFinally(p) ==
    LET rx == Max(0, p.bbox.x)
        ry == Max(0, p.bbox.y)
    IN  ~(Min(ProcFrame.w - rx, p.bbox.w) <= 5 \/ Min(ProcFrame.h - ry, p.bbox.h) <= 5)

\* The earlier worker's classifier for one piece.
ClassifyPieceOldWorker(p) ==
    LET o == OldWorkerDefaults
        rx == Max(0, p.bbox.x)
        ry == Max(0, p.bbox.y)
        rw == Min(ProcFrame.w - rx, p.bbox.w)
        rh == Min(ProcFrame.h - ry, p.bbox.h)
        lines == p.lines
        minSide == Min(rw, rh)
        long == {i \in Idx(lines) : ~(100 * SegLen(lines[i]) < minSide * o.minLenPct)}
        angN(i) == LET a == Abs(SegAngle(lines[i])) IN IF a > 9000 THEN 18000 - a ELSE a
        nearH(i) == angN(i) <= o.angleTol * 100
        nearV(i) == Abs(angN(i) - 9000) <= o.angleTol * 100
        nearLeft(i) == lines[i].x1 < o.borderTol /\ lines[i].x2 < o.borderTol
        nearRight(i) == lines[i].x1 > rw - o.borderTol /\ lines[i].x2 > rw - o.borderTol
        nearTop(i) == lines[i].y1 < o.borderTol /\ lines[i].y2 < o.borderTol
        nearBottom(i) == lines[i].y1 > rh - o.borderTol /\ lines[i].y2 > rh - o.borderTol
        bestH == MaxOf({SegLen(lines[i]) : i \in {j \in long : nearH(j) /\ (nearTop(j) \/ nearBottom(j))}})
        bestV == MaxOf({SegLen(lines[i]) : i \in {j \in long : nearV(j) /\ (nearLeft(j) \/ nearRight(j))}})
        hasH == 100 * bestH >= minSide * o.minLenPct
        hasV == 100 * bestV >= minSide * o.minLenPct
        cls == IF hasH /\ hasV THEN "corner" ELSE IF hasH \/ hasV THEN "edge" ELSE "interior"
    IN  IF ~OldWorkerReachesFinally(p) THEN EarlyResult("interior", FALSE, "ROI too small.")
        ELSE [EarlyResult(cls, FALSE, "debug") EXCEPT !.bestLen = Max(bestH, bestV),
                                                       !.maxDim = Max(rw, rh)]

\* The earlier worker's classifier over a batch. deletedMatThrows: whether the
\* build's Mat rejects a call on a deleted instance (lines.create after lines.delete).
ClassifyOldWorker(pieces, deletedMatThrows) ==
    IF deletedMatThrows /\ \E i \in 1..Len(pieces) : OldWorkerReachesFinally(pieces[i])
    THEN [path |-> "oldWorker", status |-> "threw", margin |-> 0, pieces |-> <<>>]
    ELSE [path |-> "oldWorker", status |-> "ok", margin |-> 0,
          pieces |-> [i \in 1..Len(pieces) |-> ClassifyPieceOldWorker(pieces[i])]]

\* ---- classifier inputs
\* ROI sizes (bboxProcessed width x height) of the pieces handed to the classifier.
RoiDims == {<<4, 4>>, <<8, 8>>, <<10, 48>>, <<48, 48>>}
\* contourProcessed lengths: absent (0), degenerate (2), a proper contour (8).
ContourLens == {0, 2, 8}

\* Line segments HoughLinesP reports on a piece's boundary, in ROI coordinates.
HTop(len) == Seg(3, 2, 3 + len, 2)
VLeft(len) == Seg(2, 4, 2, 4 + len)
SegmentPool ==
    {HTop(len) : len \in {13, 16, 17, 30, 40}} \cup {VLeft(len) : len \in {13, 17, 40}}
    \cup { Seg(3, 24, 43, 24),     \* horizontal, through the middle of the ROI
           Seg(20, 3, 7, 3),       \* horizontal, drawn right to left (180 degrees)
           Seg(30, 9, 6, 2),       \* 16.26 degrees off horizontal, near the top
           Seg(2, 3, 7, 15) }      \* 67.38 degrees, near the left

Fits(s, w, h) ==
    /\ {s.x1, s.x2} \subseteq 0..(w - 1)
    /\ {s.y1, s.y2} \subseteq 0..(h - 1)

\* The line lists a piece of the given ROI size can come with: up to two segments.
LineSeqs(w, h) ==
    LET pool == {s \in SegmentPool : Fits(s, w, h)}
    IN  {<<>>} \cup {<<a>> : a \in pool}
        \cup {<<pr[1], pr[2]>> : pr \in {q \in pool \X pool : q[1] # q[2]}}

MakePiece(w, h, n, lines) ==
    [bbox |-> [x |-> 20, y |-> 20, w |-> w, h |-> h], contourProcessed |-> n, lines |-> lines]

PieceInputs ==
    UNION { {MakePiece(d[1], d[2], n, ls) : n \in ContourLens, ls \in LineSeqs(d[1], d[2])}
            : d \in RoiDims }

\* The pieces that may accompany any other piece in a batch.
NeighbourPieces ==
    { MakePiece(48, 48, 2, <<HTop(40)>>),
      MakePiece(8, 8, 8, <<>>),
      MakePiece(48, 48, 8, <<HTop(40), VLeft(40)>>) }

NoCls == [path |-> "none", status |-> "none", margin |-> 0, pieces |-> <<>>]

ClsInit ==
    /\ clsBatch = <<>>
    /\ clsRes = NoCls

\* The extractor output grows by one piece.
BatchGetsPiece ==
    /\ clsRes = NoCls
    /\ Len(clsBatch) < MaxBatch
    /\ \E p \in PieceInputs :
        /\ (p \in NeighbourPieces \/ \A i \in 1..Len(clsBatch) : clsBatch[i] \in NeighbourPieces)
        /\ clsBatch' = Append(clsBatch, p)
    /\ UNCHANGED clsRes

ClassifyOnMainThread ==
    /\ clsRes = NoCls
    /\ \E marginPct \in MarginOptions, hasCtx \in BOOLEAN :
        clsRes' = ClassifyEdgeCornerMvp(clsBatch, marginPct, hasCtx)
    /\ UNCHANGED clsBatch

ClassifyInWorker ==
    /\ clsRes = NoCls
    /\ \E marginPct \in MarginOptions :
        clsRes' = ClassifyEdgeCornerMvpCore(clsBatch, marginPct)
    /\ UNCHANGED clsBatch

ClassifyInOldWorker ==
    /\ clsRes = NoCls
    /\ \E deletedMatThrows \in BOOLEAN :
        clsRes' = ClassifyOldWorker(clsBatch, deletedMatThrows)
    /\ UNCHANGED clsBatch

\* The next frame's pieces: a new batch.
ClassifyNextBatch ==
    /\ clsRes # NoCls
    /\ clsBatch' = <<>>
    /\ clsRes' = NoCls

\* ---------------------------------------------------------------- scan counts
\* Values a caller can pass as a piece class at run time: the four classes, the
\* legacy 'interior', and undefined.
ClassValues == {"corner", "edge", "nonEdge", "unknown", "interior", "undefined"}

NoCounted == [corners |-> 0, edges |-> 0, nonEdge |-> 0, unknown |-> 0, total |-> 0]

\* A count that drops every value outside the four classes.
CountBucketKnownOnly(c) ==
    IF c = "corner" THEN "corners"
    ELSE IF c = "edge" THEN "edges"
    ELSE IF c = "nonEdge" THEN "nonEdge"
    ELSE IF c = "unknown" THEN "unknown" ELSE "none"

\* if (c === 'corner') corners++; else if ... else unknown++;
CountBucket(c) ==
    IF c = "corner" THEN "corners"
    ELSE IF c = "edge" THEN "edges"
    ELSE IF c = "nonEdge" THEN "nonEdge" ELSE "unknown"

\* One iteration of `for (const c of classes)`.
CountVisit(acc, c) ==
    LET b == CountBucket(c)
    IN  [corners |-> acc.corners + (IF b = "corners" THEN 1 ELSE 0),
         edges |-> acc.edges + (IF b = "edges" THEN 1 ELSE 0),
         nonEdge |-> acc.nonEdge + (IF b = "nonEdge" THEN 1 ELSE 0),
         unknown |-> acc.unknown + (IF b = "unknown" THEN 1 ELSE 0),
         total |-> acc.total + 1]

RECURSIVE CountLoop(_, _, _)
CountLoop(classes, idx, acc) ==
    IF idx > Len(classes) THEN acc
    ELSE CountLoop(classes, idx + 1, CountVisit(acc, classes[idx]))

ComputeCountsFromClasses(classes) == CountLoop(classes, 1, NoCounted)

CntInit ==
    /\ classList = <<>>
    /\ scanCounts = [done |-> FALSE, counts |-> NoCounted]

\* One more classified piece in the collection.
ClassListGrows ==
    /\ ~scanCounts.done
    /\ Len(classList) < MaxClasses
    /\ \E c \in ClassValues : classList' = Append(classList, c)
    /\ UNCHANGED scanCounts

CountClasses ==
    /\ ~scanCounts.done
    /\ scanCounts' = [done |-> TRUE, counts |-> ComputeCountsFromClasses(classList)]
    /\ UNCHANGED classList

\* The next result's classes.
CountNextResult ==
    /\ scanCounts.done
    /\ classList' = <<>>
    /\ scanCounts' = [done |-> FALSE, counts |-> NoCounted]

\* ---------------------------------------------------------------- main-thread segmentation
\* source.videoWidth / source.width and the heights: 0 while the source is not ready.
SourceWidths == {0, 640, 1280}
SourceHeights == {0, 480, 720}
\* options.targetWidth as the page passes it.
TargetWidths == {320, 640}

\* const scale = sourceWidth > targetWidth ? targetWidth / sourceWidth : 1;
\* Math.max(1, Math.round(sourceWidth * scale)), and the same for the height.
ProcessedWidth(sw, tw) == IF sw > tw THEN Max(1, RoundDiv(sw * tw, sw)) ELSE Max(1, sw)
ProcessedHeight(sw, sh, tw) == IF sw > tw THEN Max(1, RoundDiv(sh * tw, sw)) ELSE Max(1, sh)

\* segmentPiecesFromFrame: `found` external contours of which `kept` pass the area
\* filter; cvThrows says whether an OpenCV call of its try block throws.
SegmentPiecesFromFrame(sw, sh, hasCtx, tw, found, kept, cvThrows) ==
    IF sw = 0 \/ sh = 0
    THEN [status |-> "returned", pieces |-> <<>>,
          debug |-> [sourceWidth |-> sw, sourceHeight |-> sh,
                     processedWidth |-> 0, processedHeight |-> 0,
                     piecesKept |-> 0, contoursFound |-> 0]]
    ELSE IF ~hasCtx
    THEN [status |-> "returned", pieces |-> <<>>,
          debug |-> [sourceWidth |-> sw, sourceHeight |-> sh,
                     processedWidth |-> ProcessedWidth(sw, tw),
                     processedHeight |-> ProcessedHeight(sw, sh, tw),
                     piecesKept |-> 0, contoursFound |-> 0]]
    ELSE IF cvThrows
    THEN [status |-> "threw", pieces |-> <<>>,
          debug |-> [sourceWidth |-> 0, sourceHeight |-> 0,
                     processedWidth |-> 0, processedHeight |-> 0,
                     piecesKept |-> 0, contoursFound |-> 0]]
    ELSE [status |-> "returned", pieces |-> [i \in 1..kept |-> i],
          debug |-> [sourceWidth |-> sw, sourceHeight |-> sh,
                     processedWidth |-> ProcessedWidth(sw, tw),
                     processedHeight |-> ProcessedHeight(sw, sh, tw),
                     piecesKept |-> kept, contoursFound |-> found]]

NoFrameInput == [sw |-> 0, sh |-> 0, hasCtx |-> FALSE, tw |-> 0, found |-> 0, kept |-> 0,
                 cvThrows |-> FALSE]

FrmInit == frameSeg = [called |-> FALSE, input |-> NoFrameInput,
                       out |-> SegmentPiecesFromFrame(0, 0, FALSE, 0, 0, 0, FALSE)]

\* One call of segmentPiecesFromFrame on the current source.
SegmentFrameOnMainThread ==
    \E sw \in SourceWidths, sh \in SourceHeights, hasCtx \in BOOLEAN, tw \in TargetWidths,
       found \in 0..MaxContours, cvThrows \in BOOLEAN :
        \E kept \in 0..found :
            frameSeg' = [called |-> TRUE,
                         input |-> [sw |-> sw, sh |-> sh, hasCtx |-> hasCtx, tw |-> tw,
                                    found |-> found, kept |-> kept, cvThrows |-> cvThrows],
                         out |-> SegmentPiecesFromFrame(sw, sh, hasCtx, tw, found, kept, cvThrows)]

\* ---------------------------------------------------------------- pipeline runs
Pipelines == {"segment", "extract", "classify"}

\* The steps of self.onmessage 'process' that can throw for a given pipeline.
WorkerStages(pipeline) ==
    {"opencv", "segment"}
        \cup (IF pipeline # "segment" THEN {"extract"} ELSE {})
        \cup (IF pipeline = "classify" THEN {"classify"} ELSE {})

\* A worker that answers a failed stage with an empty result.
WorkerReplyEmptyResult(req, failStage, n) ==
    [type |-> "result", requestId |-> req.requestId, pipeline |-> req.pipeline,
     pieces |-> IF failStage # "none" THEN 0 ELSE n, failed |-> failStage # "none"]

\* self.onmessage: postMessage({type: 'result', ...}) at the end of the pipeline, or
\* postMessage({type: 'error', requestId, error}) from the catch block. `failed`
\* records whether a stage threw.
WorkerReply(req, failStage, n) ==
    IF failStage # "none"
    THEN [type |-> "error", requestId |-> req.requestId, pipeline |-> req.pipeline,
          pieces |-> 0, failed |-> TRUE]
    ELSE [type |-> "result", requestId |-> req.requestId, pipeline |-> req.pipeline,
          pieces |-> n, failed |-> FALSE]

NoRun == [path |-> "none", failed |-> FALSE, signal |-> "none", reported |-> "none"]

\* tick(): catch (e) { setLiveStatus('error'); setLiveError(...) }
RunThrew(path, signal) ==
    /\ pipeLiveStatus' = "error"
    /\ pipePieces' = pipePieces
    /\ lastRun' = [path |-> path, failed |-> TRUE, signal |-> signal, reported |-> "error"]

\* runLivePipelineOnce returned: the piece list is stored, liveStatus is left alone.
RunReturned(path, pipeline, n, failed) ==
    /\ pipeLiveStatus' = pipeLiveStatus
    /\ pipePieces' = IF pipeline = "segment" THEN 0 ELSE n
    /\ lastRun' = [path |-> path, failed |-> failed, signal |-> "resolved", reported |-> "success"]

\* The candidates of a main-thread segmentation that kept n contours.
RECURSIVE CandidatesOf(_)
CandidatesOf(n) ==
    IF n = 0 THEN <<>>
    ELSE PushCandidate(CandidatesOf(n - 1),
                       [n |-> 8, x |-> 20, y |-> 20, w |-> 40, h |-> 40, solid |-> 90])

RunInit ==
    /\ requestSeq = 0
    /\ pending = {}
    /\ workerInbox = {}
    /\ clientInbox = {}
    /\ pipeLiveStatus = "running"
    /\ pipePieces = 0
    /\ lastRun = NoRun

\* tick() on the worker path, up to `await workerClientRef.current.process(...)`:
\* throws when the worker cannot be initialised or the input canvas has no 2D
\* context or the source has no dimensions, else posts the request.
TickViaWorker ==
    /\ requestSeq < MaxReq
    /\ \E pipeline \in Pipelines, initOk \in BOOLEAN, hasCtx \in BOOLEAN, sourceReady \in BOOLEAN :
        IF initOk /\ hasCtx /\ sourceReady
        THEN /\ requestSeq' = requestSeq + 1
             /\ pending' = pending \cup {requestSeq + 1}
             /\ workerInbox' = workerInbox \cup {[requestId |-> requestSeq + 1, pipeline |-> pipeline]}
             /\ UNCHANGED <<clientInbox, pipeLiveStatus, pipePieces, lastRun>>
        ELSE /\ RunThrew("worker", "thrown")
             /\ UNCHANGED <<requestSeq, pending, workerInbox, clientInbox>>

\* self.onmessage for one 'process' message.
WorkerOnMessage ==
    \E req \in workerInbox :
        \E failStage \in {"none"} \cup WorkerStages(req.pipeline), n \in 0..1 :
            /\ workerInbox' = workerInbox \ {req}
            /\ clientInbox' = clientInbox \cup {WorkerReply(req, failStage, n)}
            /\ UNCHANGED <<requestSeq, pending, pipeLiveStatus, pipePieces, lastRun>>

\* VisionWorkerClient.onMessage, and the continuation of tick() it resumes.
ClientOnMessage ==
    \E msg \in clientInbox :
        /\ clientInbox' = clientInbox \ {msg}
        /\ IF msg.requestId \in pending
           THEN /\ pending' = pending \ {msg.requestId}
                /\ IF msg.type = "error"
                   THEN RunThrew("worker", "rejected")
                   ELSE RunReturned("worker", msg.pipeline, msg.pieces, msg.failed)
           ELSE UNCHANGED <<pending, pipeLiveStatus, pipePieces, lastRun>>
        /\ UNCHANGED <<requestSeq, workerInbox>>

\* tick() on the main-thread path: segmentPiecesFromFrame, then (unless the
\* pipeline is 'segment') filterAndExtractPieces, then classifyEdgeCornerMvp.
TickOnMainThread ==
    /\ \E pipeline \in Pipelines, hasCtx \in BOOLEAN, kept \in 0..1,
          throwStage \in {"none", "segment", "classify"} :
        LET segThrows == throwStage = "segment"
            classifyThrows == throwStage = "classify"
            opts == CHOOSE o \in ExtractOptions :
                        o.borderMarginPx = DefaultBorderMarginPx /\ o.maxPieces = 200
            seg == SegmentPiecesFromFrame(640, 480, hasCtx, 640, kept, kept, segThrows)
            ext == FilterAndExtractPieces(CandidatesOf(Len(seg.pieces)), opts, hasCtx)
        IN  IF seg.status = "threw" THEN RunThrew("main", "thrown")
            ELSE IF pipeline = "segment" THEN RunReturned("main", pipeline, 0, FALSE)
            ELSE IF ext.status = "threw" THEN RunThrew("main", "thrown")
            ELSE IF pipeline = "classify" /\ classifyThrows THEN RunThrew("main", "thrown")
            ELSE RunReturned("main", pipeline, Len(ext.out.pieces), FALSE)
    /\ UNCHANGED <<requestSeq, pending, workerInbox, clientInbox>>

\* The live effect runs again: setLiveStatus('running'); setLiveError('').
LiveEffectRestarts ==
    /\ pipeLiveStatus = "error"
    /\ pipeLiveStatus' = "running"
    /\ lastRun' = NoRun
    /\ UNCHANGED <<requestSeq, pending, workerInbox, clientInbox, pipePieces>>

\* ---------------------------------------------------------------- frame quality and guidance
\* An optional metric that is absent (typeof q.x !== 'number').
Undefined == -1

\* null
NoQuality == [present |-> FALSE, mean |-> 0, std |-> 0, lapVar |-> Undefined, motion |-> Undefined,
              fgRatio |-> Undefined, foregroundRatio |-> Undefined]

\* Metric values on both sides of the thresholds; ratios are in thousandths.
Means == {50, 120}
Stds == {22, 45}
LapVars == {10, 120}
Motions == {Undefined, 40}
FgPermilles == {5, 120, 800}

\* quality = { width, height, mean, std, lapVar, foregroundRatio, motion } (worker)
WorkerQuality(mean, std, lapVar, fg, motion) ==
    [present |-> TRUE, mean |-> mean, std |-> std, lapVar |-> lapVar, motion |-> motion,
     fgRatio |-> Undefined, foregroundRatio |-> fg]

Item(level, topic) == <<[level |-> level, topic |-> topic]>>

\* qualityToGuidance
QualityToGuidance(q) ==
    IF ~q.present THEN Item("info", "none")
    ELSE
    LET lighting == IF q.mean < 60 THEN Item("bad", "dark")
                    ELSE IF q.mean < 90 THEN Item("warn", "dark")
                    ELSE IF q.mean > 210 THEN Item("bad", "bright")
                    ELSE IF q.mean > 190 THEN Item("warn", "bright")
                    ELSE <<>>
        contrast == IF q.std < 18 THEN Item("bad", "contrast")
                    ELSE IF q.std < 28 THEN Item("warn", "contrast")
                    ELSE <<>>
        sharpness == IF q.lapVar = Undefined THEN <<>>
                     ELSE IF q.lapVar < 35 THEN Item("bad", "blur")
                     ELSE IF q.lapVar < 80 THEN Item("warn", "blur")
                     ELSE <<>>
        motion == IF q.motion = Undefined THEN <<>>
                  ELSE (IF q.motion > 18 THEN Item("warn", "motion") ELSE <<>>)
                       \o (IF q.motion > 35 THEN Item("bad", "motion") ELSE <<>>)
        foreground == IF q.fgRatio = Undefined THEN <<>>
                      ELSE IF q.fgRatio < 10 THEN Item("bad", "foreground")
                      ELSE IF q.fgRatio < 30 THEN Item("warn", "foreground")
                      ELSE IF q.fgRatio > 750 THEN Item("bad", "foreground")
                      ELSE IF q.fgRatio > 550 THEN Item("warn", "foreground")
                      ELSE <<>>
        out == lighting \o contrast \o sharpness \o motion \o foreground
    IN  IF out = <<>> THEN Item("good", "good") ELSE out

\* guidance.reduce((acc, g) => ...) of frameQualityToStatus, from index i on.
RECURSIVE WorstFrom(_, _, _)
WorstFrom(guidance, i, acc) ==
    IF i > Len(guidance) THEN acc
    ELSE WorstFrom(guidance, i + 1,
                   IF guidance[i].level = "bad" THEN "bad"
                   ELSE IF guidance[i].level = "warn" /\ acc # "bad" THEN "warn"
                   ELSE acc)

\* frameQualityToStatus
FrameQualityToStatus(q) ==
    IF ~q.present THEN "unknown" ELSE WorstFrom(QualityToGuidance(q), 1, "good")

\* out.filter(...): de-duplicate by key while keeping order.
RECURSIVE DedupByKey(_, _, _)
DedupByKey(items, i, seen) ==
    IF i > Len(items) THEN <<>>
    ELSE IF items[i].key \in seen THEN DedupByKey(items, i + 1, seen)
    ELSE <<items[i]>> \o DedupByKey(items, i + 1, seen \cup {items[i].key})

\* guidanceFromFrameQuality(q, { piecesFound, maxPieces })
GuidanceFromFrameQuality(q, piecesFound, maxPieces) ==
    LET g == QualityToGuidance(q)
        quality == IF ~q.present
                   THEN <<[key |-> <<"quality-none", 0, "">>, level |-> "info", topic |-> "none"]>>
                   ELSE [i \in 1..Len(g) |->
                            [key |-> <<"quality", i - 1, g[i].level>>, level |-> g[i].level,
                             topic |-> g[i].topic]]
        pieces == IF piecesFound = 0
                  THEN <<[key |-> <<"pieces-none", 0, "">>, level |-> "warn", topic |-> "pieces-none"]>>
                  ELSE IF piecesFound >= maxPieces
                  THEN <<[key |-> <<"pieces-max", 0, "">>, level |-> "warn", topic |-> "pieces-max"]>>
                  ELSE <<>>
    IN  DedupByKey(quality \o pieces, 1, {})

GdnInit ==
    /\ frameQuality = NoQuality
    /\ shownSegLen = 0
    /\ shownExtractedLen = 0
    /\ filterMaxPieces = 200
    /\ qualityStatus = FrameQualityToStatus(NoQuality)
    /\ qualityGuidance = GuidanceFromFrameQuality(NoQuality, 0, 200)
    /\ lastAnalysis = [path |-> "none", fg |-> Undefined]

\* The page renders: the two useMemo values follow frameQuality, segPieces and filterMaxPieces.
Rendered(q, segLen, maxPieces) ==
    /\ qualityStatus' = FrameQualityToStatus(q)
    /\ qualityGuidance' = GuidanceFromFrameQuality(q, segLen, maxPieces)

\* A worker run of the extract pipeline resolves: setSegPieces(res.segmentation.pieces),
\* setFrameQuality(seg.quality ?? null), setExtractedPieces(res.extracted.pieces).
WorkerAnalysisCompletes ==
    \E mean \in Means, std \in Stds, lapVar \in LapVars, fg \in FgPermilles, motion \in Motions,
       segLen \in 0..MaxSegLen, qualityThrows \in BOOLEAN :
        \E extractedLen \in 0..Min(segLen, filterMaxPieces) :
            LET q == IF qualityThrows THEN NoQuality
                     ELSE WorkerQuality(mean, std, lapVar, fg, motion)
            IN  /\ frameQuality' = q
                /\ shownSegLen' = segLen
                /\ shownExtractedLen' = extractedLen
                /\ lastAnalysis' = [path |-> "worker", fg |-> IF qualityThrows THEN Undefined ELSE fg]
                /\ Rendered(q, segLen, filterMaxPieces)
                /\ UNCHANGED filterMaxPieces

\* A main-thread run of the extract pipeline returns: setFrameQuality(seg.quality ?? null)
\* with a segmentation result that carries no quality.
MainThreadAnalysisCompletes ==
    \E segLen \in 0..MaxSegLen :
        \E extractedLen \in 0..Min(segLen, filterMaxPieces) :
            /\ frameQuality' = NoQuality
            /\ shownSegLen' = segLen
            /\ shownExtractedLen' = extractedLen
            /\ lastAnalysis' = [path |-> "main", fg |-> Undefined]
            /\ Rendered(NoQuality, segLen, filterMaxPieces)
            /\ UNCHANGED filterMaxPieces

\* The user changes the pieces cap; the guidance is recomputed.
SetFilterMaxPieces ==
    \E m \in MaxPiecesOptions :
        /\ m # filterMaxPieces
        /\ filterMaxPieces' = m
        /\ Rendered(frameQuality, shownSegLen, m)
        /\ UNCHANGED <<frameQuality, shownSegLen, shownExtractedLen, lastAnalysis>>

\* ---------------------------------------------------------------- overlap estimate
DefaultMaxComparisons == 15000
DefaultOverlapThresholdPct == 18

\* Boxes: an overlapping pair, a box far from the others, a zero-width box and a box
\* that touches the first two at a corner.
BoxPool ==
    { [x |-> 0,   y |-> 0,   width |-> 10, height |-> 10],
      [x |-> 5,   y |-> 0,   width |-> 10, height |-> 10],
      [x |-> 100, y |-> 100, width |-> 10, height |-> 10],
      [x |-> 2,   y |-> 2,   width |-> 0,  height |-> 5],
      [x |-> 9,   y |-> 9,   width |-> 10, height |-> 10] }

MaxComparisonsOptions == {1, 2, DefaultMaxComparisons}

\* area(b)
Area(b) == Max(0, b.width) * Max(0, b.height)

\* An intersection measured from the first box's corner.
IntersectionAreaFromFirst(a, b) ==
    LET w == Min(a.x + a.width, b.x + b.width) - a.x
        h == Min(a.y + a.height, b.y + b.height) - a.y
    IN  IF w <= 0 \/ h <= 0 THEN 0 ELSE w * h

\* intersectionArea(a, b)
IntersectionArea(a, b) ==
    LET x1 == Max(a.x, b.x)
        y1 == Max(a.y, b.y)
        x2 == Min(a.x + a.width, b.x + b.width)
        y2 == Min(a.y + a.height, b.y + b.height)
        w == x2 - x1
        h == y2 - y1
    IN  IF w <= 0 \/ h <= 0 THEN 0 ELSE w * h

NoEstimate == [overlappingPairs |-> 0, maxOverlapFraction |-> Rat(0, 1), comparisons |-> 0]

\* The body of the inner loop for the pair (a, b), after comparisons++.
OverlapVisit(acc, a, b) ==
    LET counted == [acc EXCEPT !.comparisons = acc.comparisons + 1]
        inter == IntersectionArea(a, b)
        frac == Rat(inter, Min(Area(a), Area(b)))
    IN  IF Area(b) <= 0 THEN counted
        ELSE IF inter <= 0 THEN counted
        ELSE [counted EXCEPT
                !.maxOverlapFraction = IF RLt(acc.maxOverlapFraction, frac) THEN frac ELSE @,
                !.overlappingPairs = IF RLe(Rat(DefaultOverlapThresholdPct, 100), frac)
                                     THEN @ + 1 ELSE @]

\* for (i ...) { if (aArea <= 0) continue; for (j = i + 1 ...) { if (comparisons >=
\* maxComparisons) return ...; ... } }
RECURSIVE OverlapLoop(_, _, _, _, _)
OverlapLoop(boxes, i, j, acc, cap) ==
    IF i > Len(boxes) THEN acc
    ELSE IF Area(boxes[i]) <= 0 THEN OverlapLoop(boxes, i + 1, i + 2, acc, cap)
    ELSE IF j > Len(boxes) THEN OverlapLoop(boxes, i + 1, i + 2, acc, cap)
    ELSE IF acc.comparisons >= cap THEN acc
    ELSE OverlapLoop(boxes, i, j + 1, OverlapVisit(acc, boxes[i], boxes[j]), cap)

\* estimateOverlap({ boxes, maxComparisons })
EstimateOverlap(boxes, cap) == OverlapLoop(boxes, 1, 2, NoEstimate, cap)

\* The orders in which a list of n boxes can be handed over.
Orders(n) == {f \in [1..n -> 1..n] : \A k \in 1..n : \A l \in 1..n : f[k] = f[l] => k = l}
Reordered(boxes, f) == [k \in 1..Len(boxes) |-> boxes[f[k]]]

OvlInit ==
    /\ boxList = <<>>
    /\ maxComparisons = DefaultMaxComparisons
    /\ overlapRun = [done |-> FALSE, boxes |-> <<>>, est |-> NoEstimate]

\* One more piece: its bounding box joins the list.
BoxAdded ==
    /\ ~overlapRun.done
    /\ Len(boxList) < MaxBoxes
    /\ \E b \in BoxPool : boxList' = Append(boxList, b)
    /\ UNCHANGED <<maxComparisons, overlapRun>>

\* The caller picks the comparison cap.
SetMaxComparisons ==
    /\ ~overlapRun.done
    /\ \E c \in MaxComparisonsOptions : c # maxComparisons /\ maxComparisons' = c
    /\ UNCHANGED <<boxList, overlapRun>>

\* estimateOverlap is called with the boxes in some order.
EstimateOverlapCalled ==
    /\ ~overlapRun.done
    /\ \E f \in Orders(Len(boxList)) :
        overlapRun' = [done |-> TRUE, boxes |-> Reordered(boxList, f),
                       est |-> EstimateOverlap(Reordered(boxList, f), maxComparisons)]
    /\ UNCHANGED <<boxList, maxComparisons>>

\* The next frame: a new list of boxes.
NextOverlapFrame ==
    /\ overlapRun.done
    /\ boxList' = <<>>
    /\ overlapRun' = [done |-> FALSE, boxes |-> <<>>, est |-> NoEstimate]
    /\ UNCHANGED maxComparisons

\* ---------------------------------------------------------------- sensitivity presets
\* Ratios are scaled to integers: minAreaRatio in 1/10000, minSolidity in 1/100,
\* maxAspectRatio in 1/10.
\* A mapping whose 'low' preset accepts smaller and hollower contours than 'medium'.
V1SensitivityToParamsLooseLow(level) ==
    IF level = "low"
    THEN [cannyLow |-> 80, cannyHigh |-> 160, minAreaRatio |-> 10, morphKernelSize |-> 5,
          minSolidity |-> 70, maxAspectRatio |-> 35]
    ELSE IF level = "high"
    THEN [cannyLow |-> 40, cannyHigh |-> 80, minAreaRatio |-> 10, morphKernelSize |-> 7,
          minSolidity |-> 75, maxAspectRatio |-> 50]
    ELSE [cannyLow |-> 60, cannyHigh |-> 120, minAreaRatio |-> 15, morphKernelSize |-> 5,
          minSolidity |-> 80, maxAspectRatio |-> 40]

\* A mapping without the 'high' branch: 'high' falls through to the medium preset.
V1SensitivityToParamsNoHigh(level) ==
    IF level = "low"
    THEN [cannyLow |-> 80, cannyHigh |-> 160, minAreaRatio |-> 20, morphKernelSize |-> 5,
          minSolidity |-> 85, maxAspectRatio |-> 35]
    ELSE [cannyLow |-> 60, cannyHigh |-> 120, minAreaRatio |-> 15, morphKernelSize |-> 5,
          minSolidity |-> 80, maxAspectRatio |-> 40]

\* v1SensitivityToParams(level)
V1SensitivityToParams(level) ==
    IF level = "low"
    THEN [cannyLow |-> 80, cannyHigh |-> 160, minAreaRatio |-> 20, morphKernelSize |-> 5,
          minSolidity |-> 85, maxAspectRatio |-> 35]
    ELSE IF level = "high"
    THEN [cannyLow |-> 40, cannyHigh |-> 80, minAreaRatio |-> 10, morphKernelSize |-> 7,
          minSolidity |-> 75, maxAspectRatio |-> 50]
    ELSE [cannyLow |-> 60, cannyHigh |-> 120, minAreaRatio |-> 15, morphKernelSize |-> 5,
          minSolidity |-> 80, maxAspectRatio |-> 40]

SnsInit == sensCalls = <<>>

\* One call of v1SensitivityToParams with a level of the V1Sensitivity type.
SensitivityToParamsCalled ==
    /\ Len(sensCalls) < MaxCalls
    /\ \E level \in Levels :
        sensCalls' = Append(sensCalls, [level |-> level, params |-> V1SensitivityToParams(level)])

\* ---------------------------------------------------------------- worker client
\* requestId 0 stands for the 'init' message's requestId.
InitId == 0
UnusedReq == [state |-> "unused", data |-> "", by |-> "none", got |-> "", settles |-> 0]
NoDelivery == [type |-> "none", requestId |-> InitId, settled |-> {}]

\* A client that hands a reply with an unknown requestId to the oldest pending request.
SettleTargetOldest(msg, pend) ==
    IF msg.requestId \in pend THEN {msg.requestId}
    ELSE IF pend # {} THEN {CHOOSE id \in pend : \A other \in pend : id <= other}
    ELSE {}

\* onMessage: this.pending.has(msg.requestId) / this.pending.get(msg.requestId)
SettleTarget(msg, pend) == IF msg.requestId \in pend THEN {msg.requestId} ELSE {}

\* p.resolve(...) / p.reject(...) for the requests in ids.
Settle(reqs, ids, by, payload) ==
    [id \in DOMAIN reqs |->
        IF id \in ids
        THEN [reqs[id] EXCEPT !.state = "settled", !.by = by, !.got = payload,
                              !.settles = reqs[id].settles + 1]
        ELSE reqs[id]]

CliInit ==
    /\ clStatus = "idle"
    /\ clInit = "none"
    /\ clGen = 0
    /\ clTimers = {}
    /\ clHooks = {}
    /\ wkAlive = FALSE
    /\ wkInbox = {}
    /\ clInbox = {}
    /\ clNextId = 0
    /\ clPending = {}
    /\ clReq = [id \in 1..MaxIds |-> UnusedReq]
    /\ clLast = NoDelivery
    /\ clTerminated = FALSE

\* init() with no initPromise: creates the worker, posts 'init', arms the timeout and
\* installs the temporary hook; without Worker support it resolves ok:false at once.
ClientInit ==
    /\ clInit = "none"
    /\ clGen < MaxGen
    /\ clTerminated' = FALSE
    /\ \E workerAvailable \in BOOLEAN :
        IF workerAvailable
        THEN /\ clGen' = clGen + 1
             /\ clStatus' = "loading"
             /\ clInit' = "pending"
             /\ wkAlive' = TRUE
             /\ wkInbox' = {[type |-> "init", requestId |-> InitId, data |-> ""]}
             /\ clInbox' = {}
             /\ clTimers' = clTimers \cup {clGen + 1}
             /\ clHooks' = clHooks \cup {clGen + 1}
             /\ UNCHANGED <<clNextId, clPending, clReq, clLast>>
        ELSE /\ clStatus' = "error"
             /\ clInit' = "failed"
             /\ UNCHANGED <<clGen, clTimers, clHooks, wkAlive, wkInbox, clInbox, clNextId,
                            clPending, clReq, clLast>>

\* self.onmessage 'init': postMessage({ type: 'inited' }).
WorkerHandlesInit ==
    /\ wkAlive
    /\ \E msg \in wkInbox :
        /\ msg.type = "init"
        /\ wkInbox' = wkInbox \ {msg}
        /\ clInbox' = clInbox \cup {[type |-> "inited", requestId |-> InitId, payload |-> ""]}
    /\ UNCHANGED <<clStatus, clInit, clGen, clTimers, clHooks, wkAlive, clNextId, clPending,
                   clReq, clLast, clTerminated>>

\* self.onmessage 'process': a 'result' for the request, or an 'error' from the catch block.
WorkerHandlesProcess ==
    /\ wkAlive
    /\ \E msg \in wkInbox, fails \in BOOLEAN :
        /\ msg.type = "process"
        /\ wkInbox' = wkInbox \ {msg}
        /\ clInbox' = clInbox \cup
              {[type |-> IF fails THEN "error" ELSE "result", requestId |-> msg.requestId,
                payload |-> msg.data]}
    /\ UNCHANGED <<clStatus, clInit, clGen, clTimers, clHooks, wkAlive, clNextId, clPending,
                   clReq, clLast, clTerminated>>

\* A reply whose requestId no pending request has: a second reply to a settled
\* request, or one carrying the requestId of the 'init' message.
WorkerPostsUnknownId ==
    /\ wkAlive
    /\ clInbox = {}
    /\ \E id \in (InitId..clNextId) \ clPending, type \in {"result", "error"} :
        clInbox' = {[type |-> type, requestId |-> id, payload |-> "stray"]}
    /\ UNCHANGED <<clStatus, clInit, clGen, clTimers, clHooks, wkAlive, wkInbox, clNextId,
                   clPending, clReq, clLast, clTerminated>>

\* worker.onerror / worker.onmessageerror: status 'error', resolve({ ok: false }); the
\* worker may have stopped, in which case it handles nothing more.
WorkerErrorEvent ==
    /\ wkAlive
    /\ \E stops \in BOOLEAN :
        /\ wkAlive' = ~stops
        /\ wkInbox' = IF stops THEN {} ELSE wkInbox
    /\ clStatus' = "error"
    /\ clInit' = IF clInit = "pending" THEN "failed" ELSE clInit
    /\ UNCHANGED <<clGen, clTimers, clHooks, clInbox, clNextId, clPending, clReq, clLast,
                   clTerminated>>

\* The timeout callback of the init() call g:
\* if (this.status !== 'ready') { status = 'error'; resolve({ ok: false }) }
InitTimeout ==
    \E g \in clTimers :
        /\ clTimers' = clTimers \ {g}
        /\ clStatus' = IF clStatus # "ready" THEN "error" ELSE clStatus
        /\ clInit' = IF clStatus # "ready" /\ g = clGen /\ clInit = "pending" THEN "failed"
                     ELSE clInit
        /\ UNCHANGED <<clGen, clHooks, wkAlive, wkInbox, clInbox, clNextId, clPending, clReq,
                       clLast, clTerminated>>

\* worker.onmessage -> this.onMessage(msg): the temporary hooks of init() first (for
\* 'inited': restore, clearTimeout, status 'ready', resolve({ ok: true })), then the
\* class's onMessage.
ClientReceives ==
    \E msg \in clInbox :
        /\ clInbox' = clInbox \ {msg}
        /\ IF msg.type = "inited"
           THEN /\ clHooks' = {}
                /\ clTimers' = clTimers \ clHooks
                /\ clStatus' = IF clHooks # {} THEN "ready" ELSE clStatus
                /\ clInit' = IF clGen \in clHooks /\ clInit = "pending" THEN "ok" ELSE clInit
                /\ clLast' = [type |-> msg.type, requestId |-> msg.requestId, settled |-> {}]
                /\ UNCHANGED <<clPending, clReq>>
           ELSE LET target == SettleTarget(msg, clPending)
                    initFailed == msg.type = "error" /\ msg.requestId = InitId /\ clHooks # {}
                IN  /\ clPending' = clPending \ target
                    /\ clReq' = Settle(clReq, target, msg.type, msg.payload)
                    /\ clStatus' = IF msg.type = "error" /\ target = {} THEN "error" ELSE clStatus
                    /\ clLast' = [type |-> msg.type, requestId |-> msg.requestId, settled |-> target]
                    /\ clHooks' = IF initFailed THEN {} ELSE clHooks
                    /\ clTimers' = IF initFailed THEN clTimers \ clHooks ELSE clTimers
                    /\ clInit' = IF initFailed /\ clGen \in clHooks /\ clInit = "pending"
                                 THEN "failed" ELSE clInit
        /\ UNCHANGED <<clGen, wkAlive, wkInbox, clNextId, clTerminated>>

\* process() once init() has resolved ok:true: the request is registered in pending
\* and posted; a postMessage that throws rejects it at once.
ClientProcess ==
    /\ clInit = "ok"
    /\ clNextId < MaxIds
    /\ clNextId' = clNextId + 1
    /\ \E data \in {"segment", "classify"}, postThrows \in BOOLEAN :
        IF postThrows
        THEN /\ clReq' = Settle([clReq EXCEPT ![clNextId + 1].data = data], {clNextId + 1},
                                "postFailed", "")
             /\ UNCHANGED <<clPending, wkInbox>>
        ELSE /\ clReq' = [clReq EXCEPT ![clNextId + 1] = [UnusedReq EXCEPT !.state = "pending",
                                                                           !.data = data]]
             /\ clPending' = clPending \cup {clNextId + 1}
             /\ wkInbox' = IF wkAlive
                           THEN wkInbox \cup {[type |-> "process", requestId |-> clNextId + 1,
                                               data |-> data]}
                           ELSE wkInbox
    /\ UNCHANGED <<clStatus, clInit, clGen, clTimers, clHooks, wkAlive, clInbox, clLast,
                   clTerminated>>

\* terminate(): the worker is terminated, status 'idle', every pending request is
\* rejected and initPromise is dropped. The timeout of init() is not cleared and the
\* temporary hook is not restored.
ClientTerminate ==
    /\ clInit # "none"
    /\ wkAlive' = FALSE
    /\ wkInbox' = {}
    /\ clInbox' = {}
    /\ clStatus' = "idle"
    /\ clReq' = Settle(clReq, clPending, "terminated", "")
    /\ clPending' = {}
    /\ clInit' = "none"
    /\ clTerminated' = TRUE
    /\ clLast' = NoDelivery
    /\ UNCHANGED <<clGen, clTimers, clHooks, clNextId>>


\* ---------------------------------------------------------------- camera stream hook
CamInit ==
    /\ camStatus = "idle"
    /\ camErrorKind = "none"
    /\ streamHeld = FALSE
    /\ srcAttached = FALSE
    /\ camAwait = [gum |-> 0, play |-> 0, resume |-> 0]
    /\ camStopped = FALSE

Suspended == camAwait.gum + camAwait.play + camAwait.resume

\* video.play() cannot resolve on an element that has no source.
PlayOutcomes == IF srcAttached THEN BOOLEAN ELSE {FALSE}

\* startCamera() up to its first await.
StartCamera ==
    \E supported \in BOOLEAN :
        /\ supported => Suspended < MaxStarts
        /\ camStatus' = IF supported THEN "starting" ELSE "error"
        /\ camErrorKind' = IF supported THEN "none" ELSE "not_supported"
        /\ camAwait' = IF supported THEN [camAwait EXCEPT !.gum = @ + 1] ELSE camAwait
        /\ camStopped' = FALSE
        /\ UNCHANGED <<streamHeld, srcAttached>>

\* getUserMedia settles: the continuation stores the stream and attaches it to the
\* video element, or gives up when there is no element; a rejection goes to catch.
GetUserMediaSettles ==
    \E ok \in BOOLEAN, videoPresent \in BOOLEAN :
        /\ camAwait.gum > 0
        /\ IF ok /\ videoPresent
           THEN /\ streamHeld' = TRUE
                /\ srcAttached' = TRUE
                /\ camAwait' = [camAwait EXCEPT !.gum = @ - 1, !.play = @ + 1]
                /\ UNCHANGED <<camStatus, camErrorKind>>
           ELSE /\ streamHeld' = FALSE
                /\ srcAttached' = IF ok THEN srcAttached ELSE FALSE
                /\ camAwait' = [camAwait EXCEPT !.gum = @ - 1]
                /\ camStatus' = "error"
                /\ camErrorKind' = IF ok THEN camErrorKind ELSE "classified"
        /\ UNCHANGED camStopped

\* startCamera()'s await v.play() settles.
PlaySettles ==
    \E ok \in PlayOutcomes :
        /\ camAwait.play > 0
        /\ camAwait' = [camAwait EXCEPT !.play = @ - 1]
        /\ camStatus' = IF ok THEN "live" ELSE "error"
        /\ camErrorKind' = IF ok THEN camErrorKind ELSE "classified"
        /\ streamHeld' = IF ok THEN streamHeld ELSE FALSE
        /\ srcAttached' = IF ok THEN srcAttached ELSE FALSE
        /\ UNCHANGED camStopped

\* stopCamera(): stopStream(), status 'idle'.
CamStopCamera ==
    /\ streamHeld' = FALSE
    /\ srcAttached' = FALSE
    /\ camStatus' = "idle"
    /\ camStopped' = TRUE
    /\ UNCHANGED <<camErrorKind, camAwait>>

\* captureFrame() from the live view; it returns early while the video has no size.
CaptureFrame ==
    \E sized \in BOOLEAN :
        /\ camStatus = "live"
        /\ camStatus' = IF sized /\ srcAttached THEN "captured" ELSE camStatus
        /\ UNCHANGED <<camErrorKind, streamHeld, srcAttached, camAwait, camStopped>>

\* backToLive() up to its await v.play().
BackToLive ==
    /\ camStatus = "captured"
    /\ Suspended < MaxStarts
    /\ camAwait' = [camAwait EXCEPT !.resume = @ + 1]
    /\ UNCHANGED <<camStatus, camErrorKind, streamHeld, srcAttached, camStopped>>

\* backToLive()'s await v.play() settles.
ResumeSettles ==
    \E ok \in PlayOutcomes :
        /\ camAwait.resume > 0
        /\ camAwait' = [camAwait EXCEPT !.resume = @ - 1]
        /\ camStatus' = IF ok THEN "live" ELSE "error"
        /\ camErrorKind' = IF ok THEN camErrorKind ELSE "unknown"
        /\ UNCHANGED <<streamHeld, srcAttached, camStopped>>


\* ---------------------------------------------------------------- camera page reducer
\* Lists are modelled by their length, nullable objects by [present, n], a null
\* piece id by -1, fractions in hundredths (minAreaRatio in 1/10000).
createInitialCameraPageState(isTestEnv) ==
    [ opencvStatus |-> "idle", opencvBuildInfoLine |-> "", opencvError |-> "",
      isProcessing |-> FALSE, cannyLow |-> 60, cannyHigh |-> 120,
      minAreaRatio |-> 15, morphKernel |-> 5, segStatus |-> "idle", segError |-> "",
      segPieces |-> 0, segDebug |-> "", segResult |-> [present |-> FALSE, n |-> 0],
      frameQuality |-> [present |-> FALSE, n |-> 0],
      extractStatus |-> "idle", extractError |-> "", extractDebug |-> "",
      classifyDebug |-> "", extractedPieces |-> 0, selectedPieceId |-> -1,
      overlaySource |-> "segmented", overlayTapToSelect |-> TRUE, overlayShowGrid |-> TRUE,
      overlayShowCrosshair |-> FALSE, overlayShowStatusChip |-> TRUE,
      overlayShowDebugText |-> FALSE, overlayShowContours |-> TRUE,
      overlayShowBBoxes |-> FALSE, overlayShowLabels |-> TRUE,
      overlayLabelMode |-> "id+class", overlayOpacity |-> 90, overlayLineWidth |-> 2,
      overlayUseClassColors |-> TRUE,
      liveModeEnabled |-> FALSE, livePipeline |-> "segment", liveFps |-> 2,
      liveStatus |-> "idle", liveInfo |-> "", liveError |-> "",
      useWorker |-> ~isTestEnv, workerStatus |-> "idle", workerError |-> "",
      filterMinSolidity |-> 80, filterMaxAspect |-> 400, filterBorderMargin |-> 6,
      filterPadding |-> 6, filterMaxPieces |-> 80 ]

\* One value per field that differs from the initial one, as the page's setters
\* and pipelines write it.
OtherValues ==
    [ opencvStatus |-> "ready", opencvBuildInfoLine |-> "OpenCV 4", opencvError |-> "load failed",
      isProcessing |-> TRUE, cannyLow |-> 40, cannyHigh |-> 80,
      minAreaRatio |-> 10, morphKernel |-> 7, segStatus |-> "done", segError |-> "failed",
      segPieces |-> 2, segDebug |-> "Segmentation: 2", segResult |-> [present |-> TRUE, n |-> 2],
      frameQuality |-> [present |-> TRUE, n |-> 1],
      extractStatus |-> "done", extractError |-> "failed", extractDebug |-> "kept 1",
      classifyDebug |-> "edge 1", extractedPieces |-> 1, selectedPieceId |-> 1,
      overlaySource |-> "extracted", overlayTapToSelect |-> FALSE, overlayShowGrid |-> FALSE,
      overlayShowCrosshair |-> TRUE, overlayShowStatusChip |-> FALSE,
      overlayShowDebugText |-> TRUE, overlayShowContours |-> FALSE,
      overlayShowBBoxes |-> TRUE, overlayShowLabels |-> FALSE,
      overlayLabelMode |-> "id", overlayOpacity |-> 50, overlayLineWidth |-> 3,
      overlayUseClassColors |-> FALSE,
      liveModeEnabled |-> TRUE, livePipeline |-> "classify", liveFps |-> 5,
      liveStatus |-> "running", liveInfo |-> "2 pieces", liveError |-> "failed",
      useWorker |-> FALSE, workerStatus |-> "ready", workerError |-> "failed",
      filterMinSolidity |-> 70, filterMaxAspect |-> 500, filterBorderMargin |-> 10,
      filterPadding |-> 8, filterMaxPieces |-> 200 ]

Keys == DOMAIN createInitialCameraPageState(FALSE)

\* The field groups of CameraPageState.
SegmentationFields == {"segStatus", "segError", "segPieces", "segDebug", "segResult"}
ExtractionFields ==
    {"extractStatus", "extractError", "extractDebug", "classifyDebug", "extractedPieces",
     "selectedPieceId"}

\* Partial states for 'patch': up to two of these fields, set to their other value.
PatchKeys == {"segStatus", "segPieces", "frameQuality", "extractStatus", "extractedPieces",
              "filterMaxPieces"}
Patches ==
    { [k \in K |-> OtherValues[k]] : K \in { S \in SUBSET PatchKeys : Cardinality(S) \in 1..2 } }

\* A reducer whose 'resetExtraction' also resets the segmentation status.
cameraPageReducerExtractionResetsSeg(state, action) ==
    CASE action.type = "set" -> [state EXCEPT ![action.key] = action.value]
      [] action.type = "patch" ->
            [k \in DOMAIN state |->
                IF k \in DOMAIN action.patch THEN action.patch[k] ELSE state[k]]
      [] action.type = "resetSegmentation" ->
            [state EXCEPT !.segPieces = 0, !.segResult = [present |-> FALSE, n |-> 0],
                          !.segStatus = "idle", !.segError = "", !.segDebug = "",
                          !.frameQuality = [present |-> FALSE, n |-> 0],
                          !.extractStatus = "idle", !.extractError = "",
                          !.extractDebug = "", !.classifyDebug = "",
                          !.extractedPieces = 0, !.selectedPieceId = -1]
      [] action.type = "resetExtraction" ->
            [state EXCEPT !.segStatus = "idle",
                          !.extractStatus = "idle", !.extractError = "",
                          !.extractDebug = "", !.classifyDebug = "",
                          !.extractedPieces = 0, !.selectedPieceId = -1]
      [] OTHER -> state

cameraPageReducer(state, action) ==
    CASE action.type = "set" -> [state EXCEPT ![action.key] = action.value]
      [] action.type = "patch" ->
            [k \in DOMAIN state |->
                IF k \in DOMAIN action.patch THEN action.patch[k] ELSE state[k]]
      [] action.type = "resetSegmentation" ->
            [state EXCEPT !.segPieces = 0, !.segResult = [present |-> FALSE, n |-> 0],
                          !.segStatus = "idle", !.segError = "", !.segDebug = "",
                          !.frameQuality = [present |-> FALSE, n |-> 0],
                          !.extractStatus = "idle", !.extractError = "",
                          !.extractDebug = "", !.classifyDebug = "",
                          !.extractedPieces = 0, !.selectedPieceId = -1]
      [] action.type = "resetExtraction" ->
            [state EXCEPT !.extractStatus = "idle", !.extractError = "",
                          !.extractDebug = "", !.classifyDebug = "",
                          !.extractedPieces = 0, !.selectedPieceId = -1]
      [] OTHER -> state

RedInit ==
    /\ pageState = createInitialCameraPageState(FALSE)
    /\ dispatches = 0
    /\ lastDispatch = [type |-> "none", before |-> createInitialCameraPageState(FALSE),
                       after |-> createInitialCameraPageState(FALSE)]

\* dispatch(action): React stores what the reducer returns.
Dispatch(action) ==
    /\ dispatches < MaxDispatch
    /\ dispatches' = dispatches + 1
    /\ pageState' = cameraPageReducer(pageState, action)
    /\ lastDispatch' = [type |-> action.type, before |-> pageState,
                        after |-> cameraPageReducer(pageState, action)]

DispatchSet ==
    \E key \in Keys :
        \E value \in {createInitialCameraPageState(FALSE)[key], OtherValues[key]} :
            Dispatch([type |-> "set", key |-> key, value |-> value])

DispatchPatch == \E patch \in Patches : Dispatch([type |-> "patch", patch |-> patch])

DispatchResetSegmentation == Dispatch([type |-> "resetSegmentation"])

DispatchResetExtraction == Dispatch([type |-> "resetExtraction"])

\* An action object whose type is none of the four.
DispatchUnknown == Dispatch([type |-> "unknown"])

\* ---------------------------------------------------------------- specifications
vars == <<pageVars, segVars, extVars, clsVars, cntVars, frmVars, runVars, gdnVars, ovlVars, snsVars, cliVars, camVars, redVars>>

\* What the steps of each specification leave alone.
notPage == <<segVars, extVars, clsVars, cntVars, frmVars, runVars, gdnVars, ovlVars, snsVars, cliVars, camVars, redVars>>
notSeg == <<pageVars, extVars, clsVars, cntVars, frmVars, runVars, gdnVars, ovlVars, snsVars, cliVars, camVars, redVars>>
notExt == <<pageVars, segVars, clsVars, cntVars, frmVars, runVars, gdnVars, ovlVars, snsVars, cliVars, camVars, redVars>>
notCls == <<pageVars, segVars, extVars, cntVars, frmVars, runVars, gdnVars, ovlVars, snsVars, cliVars, camVars, redVars>>
notCnt == <<pageVars, segVars, extVars, clsVars, frmVars, runVars, gdnVars, ovlVars, snsVars, cliVars, camVars, redVars>>
notFrm == <<pageVars, segVars, extVars, clsVars, cntVars, runVars, gdnVars, ovlVars, snsVars, cliVars, camVars, redVars>>
notRun == <<pageVars, segVars, extVars, clsVars, cntVars, frmVars, gdnVars, ovlVars, snsVars, cliVars, camVars, redVars>>
notGdn == <<pageVars, segVars, extVars, clsVars, cntVars, frmVars, runVars, ovlVars, snsVars, cliVars, camVars, redVars>>
notOvl == <<pageVars, segVars, extVars, clsVars, cntVars, frmVars, runVars, gdnVars, snsVars, cliVars, camVars, redVars>>
notSns == <<pageVars, segVars, extVars, clsVars, cntVars, frmVars, runVars, gdnVars, ovlVars, cliVars, camVars, redVars>>
notCli == <<pageVars, segVars, extVars, clsVars, cntVars, frmVars, runVars, gdnVars, ovlVars, snsVars, camVars, redVars>>
notCam == <<pageVars, segVars, extVars, clsVars, cntVars, frmVars, runVars, gdnVars, ovlVars, snsVars, cliVars, redVars>>
notRed == <<pageVars, segVars, extVars, clsVars, cntVars, frmVars, runVars, gdnVars, ovlVars, snsVars, cliVars, camVars>>

Init == PageInit /\ SegInit /\ ExtInit /\ ClsInit /\ CntInit /\ FrmInit /\ RunInit /\ GdnInit /\ OvlInit /\ SnsInit /\ CliInit /\ CamInit /\ RedInit

\* One camera session of the page.
Next ==
    \/ SetSensitivity /\ UNCHANGED notPage
    \/ WorkerBecomesReady /\ UNCHANGED notPage
    \/ SetLiveModeEnabled /\ UNCHANGED notPage
    \/ CameraGoesLive /\ UNCHANGED notPage
    \/ SetDocHidden /\ UNCHANGED notPage
    \/ TimerTick /\ UNCHANGED notPage
    \/ LiveSettles /\ UNCHANGED notPage
    \/ CaptureAndAnalyze /\ UNCHANGED notPage
    \/ RescanCaptured /\ UNCHANGED notPage
    \/ CaptureSettles /\ UNCHANGED notPage
    \/ StopCamera /\ UNCHANGED notPage

Spec == Init /\ [][Next]_vars

\* The session's capture, re-scan, live-tick and stop operations, in which every
\* capture pass that was started terminates (its awaited worker call or OpenCV
\* load resolves or rejects).
NextCapture ==
    \/ SetLiveModeEnabled /\ UNCHANGED notPage
    \/ CameraGoesLive /\ UNCHANGED notPage
    \/ TimerTick /\ UNCHANGED notPage
    \/ LiveSettles /\ UNCHANGED notPage
    \/ CaptureAndAnalyze /\ UNCHANGED notPage
    \/ RescanCaptured /\ UNCHANGED notPage
    \/ CaptureSettles /\ UNCHANGED notPage
    \/ StopCamera /\ UNCHANGED notPage

SpecCaptureLive ==
    /\ Init
    /\ [][NextCapture]_vars
    /\ WF_vars(CaptureSettles /\ UNCHANGED notPage)

\* One worker lifetime after another, segmenting the frames posted to it.
NextSeg ==
    \/ WorkerSegmentPass /\ UNCHANGED notSeg
    \/ WorkerRestart /\ UNCHANGED notSeg

SpecSeg == Init /\ [][NextSeg]_vars

\* Extraction of the candidates of one segmentation result after another.
NextExtract ==
    \/ SegmentationKeepsContour /\ UNCHANGED notExt
    \/ SegmentNextFrame /\ UNCHANGED notExt
    \/ ExtractOnMainThread /\ UNCHANGED notExt
    \/ ExtractInWorker /\ UNCHANGED notExt

SpecExtract == Init /\ [][NextExtract]_vars

\* Classification of one batch of extracted pieces after another.
NextClassify ==
    \/ BatchGetsPiece /\ UNCHANGED notCls
    \/ ClassifyOnMainThread /\ UNCHANGED notCls
    \/ ClassifyInWorker /\ UNCHANGED notCls
    \/ ClassifyInOldWorker /\ UNCHANGED notCls
    \/ ClassifyNextBatch /\ UNCHANGED notCls

SpecClassify == Init /\ [][NextClassify]_vars

\* Counting the classes of one result after another.
NextCounts ==
    \/ ClassListGrows /\ UNCHANGED notCnt
    \/ CountClasses /\ UNCHANGED notCnt
    \/ CountNextResult /\ UNCHANGED notCnt

SpecCounts == Init /\ [][NextCounts]_vars

\* Calls of the main-thread segmentation.
NextFrame ==
    \/ SegmentFrameOnMainThread /\ UNCHANGED notFrm

SpecFrame == Init /\ [][NextFrame]_vars

\* The runs of the live pipeline, through the worker and on the main thread.
NextRun ==
    \/ TickViaWorker /\ UNCHANGED notRun
    \/ WorkerOnMessage /\ UNCHANGED notRun
    \/ ClientOnMessage /\ UNCHANGED notRun
    \/ TickOnMainThread /\ UNCHANGED notRun
    \/ LiveEffectRestarts /\ UNCHANGED notRun

SpecRun == Init /\ [][NextRun]_vars

\* The quality status and guidance list shown for one analysis result after another.
NextGuidance ==
    \/ WorkerAnalysisCompletes /\ UNCHANGED notGdn
    \/ MainThreadAnalysisCompletes /\ UNCHANGED notGdn
    \/ SetFilterMaxPieces /\ UNCHANGED notGdn

SpecGuidance == Init /\ [][NextGuidance]_vars

\* Overlap estimates of one list of boxes after another.
NextOverlap ==
    \/ BoxAdded /\ UNCHANGED notOvl
    \/ SetMaxComparisons /\ UNCHANGED notOvl
    \/ EstimateOverlapCalled /\ UNCHANGED notOvl
    \/ NextOverlapFrame /\ UNCHANGED notOvl

SpecOverlap == Init /\ [][NextOverlap]_vars

\* Calls of the sensitivity mapping, one after another.
NextSens ==
    \/ SensitivityToParamsCalled /\ UNCHANGED notSns

SpecSens == Init /\ [][NextSens]_vars

\* One worker client: init, process and terminate calls, the worker's replies and
\* error events, and the init timeout.
NextClient ==
    \/ ClientInit /\ UNCHANGED notCli
    \/ WorkerHandlesInit /\ UNCHANGED notCli
    \/ WorkerHandlesProcess /\ UNCHANGED notCli
    \/ WorkerPostsUnknownId /\ UNCHANGED notCli
    \/ WorkerErrorEvent /\ UNCHANGED notCli
    \/ InitTimeout /\ UNCHANGED notCli
    \/ ClientReceives /\ UNCHANGED notCli
    \/ ClientProcess /\ UNCHANGED notCli
    \/ ClientTerminate /\ UNCHANGED notCli

SpecClient == Init /\ [][NextClient]_vars

\* The same client with the scheduling the platform guarantees: a posted message
\* is handled by a running worker, a delivered reply is dispatched, an armed timer
\* fires. Nothing obliges the worker to stay alive or the page to call terminate().
SpecClientLive ==
    /\ Init
    /\ [][NextClient]_vars
    /\ WF_vars(WorkerHandlesInit /\ UNCHANGED notCli)
    /\ WF_vars(WorkerHandlesProcess /\ UNCHANGED notCli)
    /\ WF_vars(ClientReceives /\ UNCHANGED notCli)
    /\ WF_vars(InitTimeout /\ UNCHANGED notCli)

\* The camera stream hook driven by the page's buttons and the browser's promises.
NextCamera ==
    \/ StartCamera /\ UNCHANGED notCam
    \/ GetUserMediaSettles /\ UNCHANGED notCam
    \/ PlaySettles /\ UNCHANGED notCam
    \/ CamStopCamera /\ UNCHANGED notCam
    \/ CaptureFrame /\ UNCHANGED notCam
    \/ BackToLive /\ UNCHANGED notCam
    \/ ResumeSettles /\ UNCHANGED notCam

SpecCamera == Init /\ [][NextCamera]_vars

\* Actions dispatched to the camera page reducer.
NextReducer ==
    \/ DispatchSet /\ UNCHANGED notRed
    \/ DispatchPatch /\ UNCHANGED notRed
    \/ DispatchResetSegmentation /\ UNCHANGED notRed
    \/ DispatchResetExtraction /\ UNCHANGED notRed
    \/ DispatchUnknown /\ UNCHANGED notRed

SpecReducer == Init /\ [][NextReducer]_vars

\* ---------------------------------------------------------------- claims: live loop and capture

\* C1: in live mode at most one live pipeline execution is outstanding at any
\* time, whatever ticks, toggles, status changes and parameter changes occurred.
C1_AtMostOneLiveOutstanding == liveRunning <= 1

\* C2: a capture pass that settles after a newer pass was started changes none of
\* the page's result state, and a capture result that is applied belongs to the
\* pass holding the current (highest) sequence number.
C2_StaleCaptureDiscarded ==
    [][ /\ \A q \in capRunning \ capRunning' :
              q # captureSeq => UNCHANGED <<segShown, segStatus, isProcessing>>
        /\ (segShown' # segShown /\ segShown'.kind = "capture")
              => segShown'.seq = captureSeq' ]_vars

\* C2 witness: the newest pass was applied and an older pass settled after it.
C2_Witness ==
    /\ lastOp.op = "captureSettled"
    /\ lastOp.seq < captureSeq
    /\ segShown = [kind |-> "capture", seq |-> captureSeq]

\* C3: a timer tick that fires while a live execution is outstanding starts no
\* execution.
C3_TickInFlightIsSkipped ==
    (lastOp.op = "tick" /\ lastOp.liveBefore > 0) => ~lastOp.started

\* C4: at most one pipeline execution of any kind (live tick or capture pass) is
\* running at a time in the session.
C4_OneExecutionAtATime == Outstanding <= 1

\* ---------------------------------------------------------------- claims: motion cache

\* C5: every segmentation pass that returns a result has replaced the cached
\* previous frame with its own downscaled frame, exactly once.
C5_CacheReplacedOncePerPass ==
    segOut.status = "ok" => (segOut.writes = 1 /\ prevGraySmall.frame = segOut.frame)

\* ---------------------------------------------------------------- claims: extraction

\* C6: every extracted piece carries the id of the candidate it was derived from,
\* whichever path (main thread or worker) extracted it.
C6_ExtractedIdIsCandidateId ==
    \A k \in 1..Len(extractRes.out.pieces) :
        extractRes.out.pieces[k].id = segPieces[extractRes.out.pieces[k].from].id

\* The candidates (by position) whose bounding rect comes closer than marginPx to
\* an edge of the processed frame.
CloseToFrameEdge(marginPx) ==
    {i \in 1..Len(segPieces) :
        LET c == segPieces[i].shape
        IN  \/ c.x < marginPx
            \/ c.y < marginPx
            \/ ProcFrame.w - (c.x + c.w) < marginPx
            \/ ProcFrame.h - (c.y + c.h) < marginPx}

\* The candidates (by position) that pass every filter under the given options.
PassAllFilters(opts) ==
    {i \in 1..Len(segPieces) :
        LET c == segPieces[i].shape
        IN  /\ c.n >= 3
            /\ i \notin CloseToFrameEdge(opts.borderMarginPx)
            /\ c.w > 0 /\ c.h > 0
            /\ c.w <= opts.maxAspectRatio * c.h /\ c.h <= opts.maxAspectRatio * c.w
            /\ c.solid >= opts.minSolidityPct}

\* The candidates (by position) the extractor's output was derived from.
KeptFrom == {extractRes.out.pieces[k].from : k \in 1..Len(extractRes.out.pieces)}

\* C12: a candidate whose bounding rect (processed coordinates) lies closer than
\* borderMarginPx to an edge of the processed frame is never in the extractor's
\* output, whatever the candidate list, the margin and the path.
C12_BorderCandidatesRejected ==
    extractRes.status = "ok" => KeptFrom \cap CloseToFrameEdge(extractRes.opts.borderMarginPx) = {}

\* C12 witness: an extraction that kept a piece and left out a candidate close to
\* the right or bottom edge.
C12_Witness ==
    /\ extractRes.status = "ok"
    /\ extractRes.opts.borderMarginPx > 0
    /\ KeptFrom # {}
    /\ \E i \in CloseToFrameEdge(extractRes.opts.borderMarginPx) :
           segPieces[i].shape.x >= extractRes.opts.borderMarginPx

\* C13: the output never has more than maxPieces pieces, and the pieces kept are
\* the first maxPieces candidates, in discovery order, that pass all filters.
C13_FirstMaxPiecesKept ==
    extractRes.status = "ok" =>
        LET out == extractRes.out.pieces
            passing == PassAllFilters(extractRes.opts)
        IN  /\ Len(out) <= extractRes.opts.maxPieces
            /\ \A k \in 1..Len(out) : \A l \in 1..Len(out) : k < l => out[k].from < out[l].from
            /\ KeptFrom \subseteq passing
            /\ Len(out) = Min(extractRes.opts.maxPieces, Cardinality(passing))
            /\ \A i \in passing \ KeptFrom : \A j \in KeptFrom : j < i

\* C13 witness: more candidates pass the filters than maxPieces allows.
C13_Witness ==
    /\ extractRes.status = "ok"
    /\ Cardinality(PassAllFilters(extractRes.opts)) > extractRes.opts.maxPieces
    /\ Len(extractRes.out.pieces) = extractRes.opts.maxPieces
    /\ Len(extractRes.out.pieces) = 2

\* C14: every candidate the extractor examined is either kept or counted in one of
\* its rejection counters; a degenerate candidate does not stop the batch.
C14_ExaminedCandidatesAccounted ==
    extractRes.status = "ok" =>
        extractRes.out.candidates = Len(extractRes.out.pieces) + extractRes.out.filteredBorder
                                    + extractRes.out.filteredAspect + extractRes.out.filteredSolidity

\* ---------------------------------------------------------------- claims: classification
Classes == {"corner", "edge", "nonEdge", "unknown"}

\* The minimum straight-edge ratio (percent) of the classifier that produced clsRes.
MinLenPctOf(path) == IF path = "worker" THEN WorkerDefaults.minLenPct ELSE MainDefaults.minLenPct

\* A result whose best straight-edge ratio bestLen / maxDim is at the minimum
\* threshold plus less than the margin (margin = marginPct percent of the threshold).
InMarginBand(r, minLenPct, marginPct) ==
    /\ r.maxDim > 0
    /\ 100 * r.bestLen >= minLenPct * r.maxDim
    /\ 100 * 100 * r.bestLen < minLenPct * (100 + marginPct) * r.maxDim

NewPaths == {"main", "worker"}

\* C7: a piece whose best straight-edge ratio lies at the minimum threshold plus
\* less than the margin is classified 'unknown', on the main thread and in the worker.
C7_MarginBandIsUnknown ==
    clsRes.path \in NewPaths =>
        \A i \in 1..Len(clsRes.pieces) :
            InMarginBand(clsRes.pieces[i], MinLenPctOf(clsRes.path), clsRes.margin)
                => clsRes.pieces[i].classification = "unknown"

\* C7 witness: a piece in the band, seen as corner or edge before the override.
C7_Witness ==
    /\ clsRes.path \in NewPaths
    /\ clsRes.margin = 10
    /\ \E i \in 1..Len(clsRes.pieces) :
        /\ InMarginBand(clsRes.pieces[i], MinLenPctOf(clsRes.path), clsRes.margin)
        /\ clsRes.pieces[i].clsBefore \in {"corner", "edge"}
        /\ clsRes.pieces[i].classification = "unknown"

\* C8 as stated: after a downgrade to 'unknown' the reported confidence is never
\* greater than the confidence computed before the downgrade.
C8_DowngradeNeverRaisesConfidence ==
    \A i \in 1..Len(clsRes.pieces) :
        clsRes.pieces[i].downgraded
            => RLe(clsRes.pieces[i].confidence, clsRes.pieces[i].confBefore)

\* C8 amended: after a downgrade the reported confidence is the confidence computed
\* before it clamped into [0.05, 0.25]: never above 0.25, unchanged inside the band,
\* and exactly 0.05 (a rise) when the computed confidence was below 0.05.
C8_DowngradeClampsConfidence ==
    \A i \in 1..Len(clsRes.pieces) :
        LET r == clsRes.pieces[i]
            lo == Rat(5, 100)
            hi == Rat(25, 100)
        IN  r.downgraded =>
                /\ r.classification = "unknown"
                /\ RLe(lo, r.confidence) /\ RLe(r.confidence, hi)
                /\ RLt(r.confBefore, lo) => REq(r.confidence, lo)
                /\ RLt(hi, r.confBefore) => REq(r.confidence, hi)
                /\ (RLe(lo, r.confBefore) /\ RLe(r.confBefore, hi)) => REq(r.confidence, r.confBefore)

\* C8 witness: a downgraded piece whose computed confidence was above 0.25.
C8_Witness ==
    \E i \in 1..Len(clsRes.pieces) :
        /\ clsRes.pieces[i].downgraded
        /\ RLt(Rat(25, 100), clsRes.pieces[i].confBefore)
        /\ REq(clsRes.pieces[i].confidence, Rat(25, 100))

\* C9: on every execution path the classifier returns, for every piece, one of
\* corner, edge, nonEdge, unknown, and it never throws.
C9_ClassificationInFourClasses ==
    /\ clsRes.status # "threw"
    /\ clsRes.status = "ok" =>
        /\ Len(clsRes.pieces) = Len(clsBatch)
        /\ \A i \in 1..Len(clsRes.pieces) : clsRes.pieces[i].classification \in Classes

\* C10: a piece with fewer than 3 contour points or with an ROI too small to
\* process comes back 'unknown' with confidence 0 and a note, the classifier does
\* not throw, and every piece of the batch still gets its result.
C10_DegeneratePieceIsUnknownZero ==
    clsRes.path \in NewPaths =>
        /\ clsRes.status = "ok"
        /\ Len(clsRes.pieces) = Len(clsBatch)
        /\ \A i \in 1..Len(clsBatch) :
            (clsBatch[i].contourProcessed < 3 \/ RoiTooSmall(clsBatch[i].bbox.w, clsBatch[i].bbox.h))
                => /\ clsRes.pieces[i].classification = "unknown"
                   /\ REq(clsRes.pieces[i].confidence, Rat(0, 1))
                   /\ clsRes.pieces[i].note # "debug"

\* ---------------------------------------------------------------- claims: scan counts

\* C11: for any collection of class values, known or not, the counts satisfy
\* total = corners + edges + nonEdge + unknown, and total is the collection's size.
C11_CountsAddUp ==
    scanCounts.done =>
        /\ scanCounts.counts.total = scanCounts.counts.corners + scanCounts.counts.edges
                                     + scanCounts.counts.nonEdge + scanCounts.counts.unknown
        /\ scanCounts.counts.total = Len(classList)

\* C11 witness: counts computed for a collection holding a value outside the four classes.
C11_Witness ==
    /\ scanCounts.done
    /\ Len(classList) >= 2
    /\ \E i \in 1..Len(classList) : classList[i] \notin Classes
    /\ \E i \in 1..Len(classList) : classList[i] = "corner"

\* ---------------------------------------------------------------- claims: pipeline runs
\* C15: when the extractor cannot obtain pixel access, or a pipeline stage fails in
\* the worker, the caller receives an error signal (a thrown error or a rejected
\* request) and the session is in the error state; the run is never reported as a
\* success.
C15_FailureIsSignalled ==
    lastRun.failed =>
        /\ lastRun.signal \in {"thrown", "rejected"}
        /\ lastRun.reported = "error"
        /\ pipeLiveStatus = "error"

\* C15 witness: a stage failed in the worker and the request was rejected, with
\* another request still outstanding.
C15_Witness ==
    /\ lastRun.failed
    /\ lastRun.path = "worker"
    /\ lastRun.signal = "rejected"
    /\ pending # {}

\* ---------------------------------------------------------------- claims: main-thread segmentation
\* C16: segmenting a frame with zero width or height, or with no drawing surface,
\* returns (never throws) an empty candidate list with zeroed debug metadata:
\* processed dimensions and counts are all 0.
C16_DegenerateFrameZeroedDebug ==
    (frameSeg.called /\ (frameSeg.input.sw = 0 \/ frameSeg.input.sh = 0 \/ ~frameSeg.input.hasCtx)) =>
        /\ frameSeg.out.status = "returned"
        /\ frameSeg.out.pieces = <<>>
        /\ frameSeg.out.debug.processedWidth = 0
        /\ frameSeg.out.debug.processedHeight = 0
        /\ frameSeg.out.debug.piecesKept = 0
        /\ frameSeg.out.debug.contoursFound = 0

\* ---------------------------------------------------------------- claims: guidance
\* Severity of a guidance level: bad > warn > good > info.
Rank(level) == IF level = "bad" THEN 3 ELSE IF level = "warn" THEN 2
               ELSE IF level = "good" THEN 1 ELSE 0

\* C17: the overall quality status is the worst (highest-severity) level among all
\* items of the guidance list shown for the same analysis result, quality items and
\* piece-count items alike (a list of info items only going with 'unknown').
C17_StatusIsWorstGuidanceLevel ==
    lastAnalysis.path # "none" =>
        LET worst == CHOOSE r \in 0..3 :
                        /\ \E i \in 1..Len(qualityGuidance) : Rank(qualityGuidance[i].level) = r
                        /\ \A i \in 1..Len(qualityGuidance) : Rank(qualityGuidance[i].level) <= r
        IN  qualityStatus = (IF worst = 3 THEN "bad" ELSE IF worst = 2 THEN "warn"
                             ELSE IF worst = 1 THEN "good" ELSE "unknown")

\* C18: whenever the latest completed analysis has zero pieces surviving filtering,
\* the guidance list contains a warn-level "no pieces detected" item.
C18_NoPiecesGuidance ==
    (lastAnalysis.path # "none" /\ shownExtractedLen = 0) =>
        \E i \in 1..Len(qualityGuidance) :
            qualityGuidance[i].topic = "pieces-none" /\ qualityGuidance[i].level = "warn"

\* C19: a frame whose measured foreground ratio is below 0.01 or above 0.75 yields a
\* foreground guidance item, whichever path produced the frame-quality metrics.
C19_ForegroundGuidance ==
    (lastAnalysis.fg # Undefined /\ (lastAnalysis.fg < 10 \/ lastAnalysis.fg > 750)) =>
        \E i \in 1..Len(qualityGuidance) : qualityGuidance[i].topic = "foreground"

\* ---------------------------------------------------------------- claims: overlap
\* The estimate of every reordering of the boxes agrees with the one computed.
SameForEveryOrder ==
    \A f \in Orders(Len(overlapRun.boxes)) :
        LET other == EstimateOverlap(Reordered(overlapRun.boxes, f), maxComparisons)
        IN  /\ other.overlappingPairs = overlapRun.est.overlappingPairs
            /\ REq(other.maxOverlapFraction, overlapRun.est.maxOverlapFraction)

\* C20 as stated: estimateOverlap returns the same overlappingPairs and
\* maxOverlapFraction for every permutation of the same list of boxes, lists that
\* reach the comparison cap included.
C20_OrderIndependentAlways ==
    overlapRun.done => SameForEveryOrder

\* C20 as the code has it: estimateOverlap returns the same overlappingPairs and
\* maxOverlapFraction for every permutation of the same list of boxes (zero-area
\* boxes included) whenever the number of pairs of the list does not exceed
\* maxComparisons.
C20_OrderIndependentWithinCap ==
    (overlapRun.done /\ Len(overlapRun.boxes) * (Len(overlapRun.boxes) - 1) <= 2 * maxComparisons)
        => SameForEveryOrder

\* C20 witness: three boxes, a zero-area one and an overlapping pair among them,
\* handed over in another order than discovered, with the cap out of reach.
C20_Witness ==
    /\ overlapRun.done
    /\ Len(overlapRun.boxes) = 3
    /\ overlapRun.boxes # boxList
    /\ maxComparisons = DefaultMaxComparisons
    /\ \E k \in 1..3 : Area(overlapRun.boxes[k]) = 0
    /\ overlapRun.est.overlappingPairs = 1

\* ---------------------------------------------------------------- claims: sensitivity presets
\* low < medium < high
LevelRank(level) == IF level = "low" THEN 0 ELSE IF level = "medium" THEN 1 ELSE 2

\* C21: for the metrics that are stricter at lower sensitivity (minAreaRatio,
\* minSolidity), the value for 'low' is at least the value for 'medium', which is at
\* least the value for 'high'.
C21_StricterAtLowerSensitivity ==
    \A i \in 1..Len(sensCalls) : \A j \in 1..Len(sensCalls) :
        LevelRank(sensCalls[i].level) <= LevelRank(sensCalls[j].level) =>
            /\ sensCalls[i].params.minAreaRatio >= sensCalls[j].params.minAreaRatio
            /\ sensCalls[i].params.minSolidity >= sensCalls[j].params.minSolidity

\* C21 witness: the mapping was called for low, then medium, then high.
C21_Witness ==
    /\ Len(sensCalls) = 3
    /\ sensCalls[1].level = "low" /\ sensCalls[2].level = "medium" /\ sensCalls[3].level = "high"
    /\ sensCalls[1].params.minSolidity > sensCalls[3].params.minSolidity

\* C22: the mapping is defined for each of the three levels and returns the fixed
\* preset of that level; repeated calls with the same level return equal results.
C22_FixedPresets ==
    \A i \in 1..Len(sensCalls) :
        /\ sensCalls[i].level \in {"low", "medium", "high"}
        /\ sensCalls[i].level = "low" =>
              sensCalls[i].params = [cannyLow |-> 80, cannyHigh |-> 160, minAreaRatio |-> 20,
                                     morphKernelSize |-> 5, minSolidity |-> 85, maxAspectRatio |-> 35]
        /\ sensCalls[i].level = "medium" =>
              sensCalls[i].params = [cannyLow |-> 60, cannyHigh |-> 120, minAreaRatio |-> 15,
                                     morphKernelSize |-> 5, minSolidity |-> 80, maxAspectRatio |-> 40]
        /\ sensCalls[i].level = "high" =>
              sensCalls[i].params = [cannyLow |-> 40, cannyHigh |-> 80, minAreaRatio |-> 10,
                                     morphKernelSize |-> 7, minSolidity |-> 75, maxAspectRatio |-> 50]
        /\ \A j \in 1..Len(sensCalls) :
              sensCalls[j].level = sensCalls[i].level => sensCalls[j].params = sensCalls[i].params

\* C22 witness: every level was asked for, 'high' twice.
C22_Witness ==
    /\ Len(sensCalls) = 4
    /\ {sensCalls[i].level : i \in 1..4} = {"low", "medium", "high"}
    /\ sensCalls[1].level = "high" /\ sensCalls[4].level = "high"

\* ---------------------------------------------------------------- claims: worker client
\* C23: the client's status agrees with the outcome of init(): it is 'ready' only
\* when init() resolved ok:true, and a client whose init() resolved ok:false is never
\* 'ready', whatever the order of 'inited', error events and the init timeout.
C23_ReadyOnlyWhenInitOk ==
    clStatus = "ready" => clInit = "ok"

\* C24 as stated: a process() promise is settled only by a worker message carrying
\* its own requestId.
C24_SettledOnlyByOwnMessage ==
    \A id \in 1..MaxIds :
        clReq[id].state = "settled" => clReq[id].by \in {"result", "error"}

\* C24 as the code has it: a worker message settles only the request with its own
\* requestId (a 'result' resolves it with the message's payload, an 'error' rejects
\* it), a message with an unknown requestId settles nothing, and no promise is
\* settled twice; besides worker messages, terminate() and a postMessage that throws
\* reject a request.
C24_MessageSettlesOwnRequest ==
    /\ clLast.settled \subseteq {clLast.requestId}
    /\ \A id \in 1..MaxIds :
        /\ clReq[id].settles <= 1
        /\ clReq[id].state = "settled" =>
              /\ clReq[id].by \in {"result", "error", "terminated", "postFailed"}
              /\ clReq[id].by \in {"result", "error"} => clReq[id].got = clReq[id].data
        /\ id \in clPending <=> clReq[id].state = "pending"

\* C24 witness: with two requests pending, the reply to the second came first and
\* settled only the second; then a reply with an unknown requestId settled nothing.
C24_Witness ==
    /\ clReq[1].state = "pending"
    /\ clReq[2].state = "settled" /\ clReq[2].by = "result"
    /\ clLast.type = "result" /\ clLast.requestId = 2 /\ clLast.settled = {}

\* C25: every process() call eventually resolves or rejects, also when the worker
\* raises onerror after the request was posted or never answers.
C25_EveryRequestSettles ==
    \A id \in 1..MaxIds : (id \in clPending) ~> (id \notin clPending)

\* C29: after terminate() the client stays 'idle' with no pending request until
\* init() is called again: no late message and no timer of an earlier init() changes
\* the status or settles a request.
C29_TerminatedStaysIdle ==
    clTerminated => (clStatus = "idle" /\ clPending = {})


\* ---------------------------------------------------------------- claims: stopping the camera
\* C26: once stopCamera() has run (camera 'idle'), the segmentation, extraction
\* and frame-quality results stay cleared and the segmentation status stays
\* 'idle' until the camera is started again, whatever live execution or capture
\* pass settles in the meantime.
C26_StoppedStaysCleared ==
    cameraStatus = "idle" => (segShown = NoShown /\ segStatus = "idle")


C28_StoppedStaysIdle ==
    camStopped => (camStatus = "idle" /\ ~streamHeld)


\* ---------------------------------------------------------------- claims: camera page reducer
\* C30: 'resetExtraction' puts the extraction fields back to their initial values
\* and leaves every other field as it was; 'resetSegmentation' does so for the
\* segmentation fields, the extraction fields and frameQuality and leaves every
\* other field as it was; an action of unknown type returns the state unchanged.
C30_ResetsTouchOnlyTheirFields ==
    LET before == lastDispatch.before
        after == lastDispatch.after
        initial == createInitialCameraPageState(FALSE)
        ResetExactly(fields) ==
            /\ \A k \in fields : after[k] = initial[k]
            /\ \A k \in Keys \ fields : after[k] = before[k]
    IN  /\ lastDispatch.type = "resetExtraction" => ResetExactly(ExtractionFields)
        /\ lastDispatch.type = "resetSegmentation" =>
               ResetExactly(SegmentationFields \cup ExtractionFields \cup {"frameQuality"})
        /\ lastDispatch.type = "unknown" => after = before

\* 'resetExtraction' on a state holding segmentation and extraction results.
C30_Witness ==
    /\ lastDispatch.type = "resetExtraction"
    /\ lastDispatch.before.segStatus = "done"
    /\ lastDispatch.before.extractStatus = "done"
    /\ lastDispatch.after.segStatus = "done"
    /\ lastDispatch.after.extractStatus = "idle"

====
